---------------------------- MODULE Spec2Model ----------------------------
(***************************************************************************)
(* A model of src/server.py: PrinterMCPServer, the stdio JSON-RPC loop,    *)
(* the print_file tool, the auto-fit search find_optimal_scaling, the PDF  *)
(* build create_formatted_pdf and the dispatch print_with_pdftoprinter.    *)
(*                                                                         *)
(* Lengths are integers in units of 1/400 pt: every product the code       *)
(* computes on the grid (font sizes k/2 pt, scales k/10, factors k/10 and  *)
(* the halving of a blank line) is a whole number of such units, so the    *)
(* arithmetic below is exact.  The code works in binary floating point:    *)
(* its scale values are 1.0, 0.9, 0.8, 0.7000000000000001, ...,            *)
(* 0.5000000000000001 (six values, all >= 0.5); the model writes them      *)
(* 10, 9, ..., 5 (tenths).  An estimate within 1e-12 pt of the usable      *)
(* height could compare differently in the code; no content of the         *)
(* bounded input sets is that close unless every spacing is at its floor,  *)
(* where the code's values are exact too.                                  *)
(***************************************************************************)
EXTENDS Integers, Sequences, FiniteSets, TLC

\* ---------------------------------------------------------------- bounds
\* lines read from stdin in one run
MaxRequests == 2
\* length of the line pattern a content of the search's inputs repeats
MaxLen == 2
\* a content repeats its pattern 1 or k*RepStep times, k in 1..MaxRepK
RepStep == 20
MaxRepK == 2
\* pages the real layout pass may produce
MaxPagesBuilt == 3
\* lines of a text the loops over lines are run on by themselves
MaxStoryLines == 4

\* ------------------------------------------------------------- units
Pt(n) == n * 400
inch == Pt(72)
Max(a, b) == IF a >= b THEN a ELSE b

\* ------------------------------------------- find_optimal_scaling: constants
base_font_size == Pt(10)
min_font_size == Pt(5)
font_step == Pt(1) \div 2
\* spacing scales are in tenths
full_spacing_scale == 10
min_spacing_scale == 5
spacing_step == 1
page_height == 4 * inch
search_margin == inch \div 4
\* "Two pages"
max_pages == 2
usable_height == (page_height - 2 * search_margin) * max_pages

\* ------------------------------------------------------------- content
\* A line is known by its kind after line.strip(): "blank" (empty), "h1"
\* ('# ...'), "h2" ('## ...'), "h3" ('### ...'), "body" (anything else).
\* A line of text as a sequence of characters.
Strip(line) ==
    LET inked == {i \in DOMAIN line : line[i] # " "}
    IN  IF inked = {} THEN <<>>
        ELSE SubSeq(line, CHOOSE i \in inked : \A j \in inked : i <= j,
                          CHOOSE i \in inked : \A j \in inked : i >= j)

StartsWith(line, prefix) ==
    Len(line) >= Len(prefix) /\ SubSeq(line, 1, Len(prefix)) = prefix

\* the branch of estimate_height's loop a line takes: line.strip(), then
\* `if not line`, startswith('# '), startswith('## '), startswith('### ')
LineKind(line) ==
    LET stripped == Strip(line)
    IN  IF stripped = <<>> THEN "blank"
        ELSE IF StartsWith(stripped, <<"#", " ">>) THEN "h1"
        ELSE IF StartsWith(stripped, <<"#", "#", " ">>) THEN "h2"
        ELSE IF StartsWith(stripped, <<"#", "#", "#", " ">>) THEN "h3"
        ELSE "body"

\* The lines a content is made of: nothing but spaces, or a marker followed
\* by a short or a long run of text.
LineMarkers ==
    {<<>>, <<"#", " ">>, <<"#", "#", " ">>, <<"#", "#", "#", " ">>,
     <<"-", " ">>, <<"1", ".", " ">>, <<"#">>, <<"#", "#", "#", "#", " ">>,
     <<" ", "#", " ">>}
LineBodies == {<<"t">>, <<"t", "t", " ", "t", "t", "t", " ", "t", "t", "t", "t">>}
BlankLines == {<<>>, <<" ">>, <<" ", " ", " ">>}
Lines == BlankLines \cup {marker \o text : marker \in LineMarkers, text \in LineBodies}

\* the kinds of line estimate_height tells apart
LineKinds == {LineKind(line) : line \in Lines}

\* content.split('\n') followed by line.strip() of each line: a content is
\* its line pattern repeated rep times.
SplitLines(content) ==
    [i \in 1..(Len(content.pattern) * content.rep) |->
        content.pattern[((i - 1) % Len(content.pattern)) + 1]]

\* the empty string splits into one empty line
EmptyContent == [pattern |-> <<"blank">>, rep |-> 1]

Patterns == UNION {[1..n -> LineKinds] : n \in 1..MaxLen}
Reps == {1} \cup {k * RepStep : k \in 1..MaxRepK}
\* the contents the search is run on by itself
Contents == [pattern : Patterns, rep : Reps]
\* Two more lines a request may hold, body lines to estimate_height:
\* "open_emphasis" is the line '**bold' (an emphasis marker never closed),
\* "stray_tag" the line 'a <b> c' (a tag never closed).
MalformedKinds == {"open_emphasis", "stray_tag"}
\* the contents of the print requests the server is sent: one kind of line,
\* once or many times, or one malformed line
RequestContents ==
    [pattern : [1..1 -> LineKinds], rep : Reps]
    \cup {[pattern |-> <<k>>, rep |-> 1] : k \in MalformedKinds}

\* test_print's two fixed contents, as line kinds
TestContent4x6 ==
    [pattern |-> <<"h1", "blank", "body", "blank", "h2", "body", "body", "body",
                   "body", "blank", "h3", "body", "body", "body", "blank",
                   "body", "blank">>,
     rep |-> 1]
TestContentLetter ==
    [pattern |-> <<"h1", "blank", "body", "blank", "h2", "body", "body", "body",
                   "body", "body", "blank", "h2", "body", "body", "body", "body",
                   "blank", "body", "blank">>,
     rep |-> 1]

\* ------------------------------------------- find_optimal_scaling: helpers
\* (mutant) the font sizes growing as the base size shrinks
calculate_font_sizes_reversed(font_size, spacing_scale) ==
    [title |-> (base_font_size + min_font_size - font_size) + Pt(4),
     h1 |-> (base_font_size + min_font_size - font_size) + Pt(4),
     h2 |-> (base_font_size + min_font_size - font_size) + Pt(2),
     h3 |-> (base_font_size + min_font_size - font_size) + Pt(1),
     body |-> base_font_size + min_font_size - font_size,
     leading_body |-> (font_size * Max(110, 13 * spacing_scale)) \div 100]

calculate_font_sizes(font_size, spacing_scale) ==
    [title |-> font_size + Pt(4),
     h1 |-> font_size + Pt(4),
     h2 |-> font_size + Pt(2),
     h3 |-> font_size + Pt(1),
     body |-> font_size,
     leading_body |-> (font_size * Max(110, 13 * spacing_scale)) \div 100]

\* (mutant) the search-side spacings without their floors
calculate_spacing_unfloored(font_size, spacing_scale) ==
    LET base_spacing == (font_size * 6) \div 10
    IN  [space_after_body |-> (base_spacing * spacing_scale) \div 10,
         space_after_h1 |-> ((((font_size + Pt(4)) * 8) \div 10) * spacing_scale) \div 10,
         space_after_h2 |-> ((((font_size + Pt(2)) * 8) \div 10) * spacing_scale) \div 10,
         space_after_h3 |-> ((((font_size + Pt(1)) * 7) \div 10) * spacing_scale) \div 10,
         space_before_h1 |-> ((font_size + Pt(4)) * spacing_scale) \div 10,
         space_before_h2 |-> ((((font_size + Pt(2)) * 9) \div 10) * spacing_scale) \div 10,
         space_before_h3 |-> ((((font_size + Pt(1)) * 8) \div 10) * spacing_scale) \div 10,
         space_after_title |-> ((((font_size + Pt(4)) * 8) \div 10) * spacing_scale) \div 10]

\* calculate_spacing of find_optimal_scaling, lengths in units of 1/400 pt
calculate_spacing(font_size, spacing_scale) ==
    LET base_spacing == (font_size * 6) \div 10
    IN  [space_after_body |-> Max(Pt(2), (base_spacing * spacing_scale) \div 10),
         space_after_h1 |->
             Max(Pt(8), ((((font_size + Pt(4)) * 8) \div 10) * spacing_scale) \div 10),
         space_after_h2 |->
             Max(Pt(6), ((((font_size + Pt(2)) * 8) \div 10) * spacing_scale) \div 10),
         space_after_h3 |->
             Max(Pt(4), ((((font_size + Pt(1)) * 7) \div 10) * spacing_scale) \div 10),
         space_before_h1 |->
             Max(Pt(10), ((font_size + Pt(4)) * spacing_scale) \div 10),
         space_before_h2 |->
             Max(Pt(8), ((((font_size + Pt(2)) * 9) \div 10) * spacing_scale) \div 10),
         space_before_h3 |->
             Max(Pt(6), ((((font_size + Pt(1)) * 8) \div 10) * spacing_scale) \div 10),
         space_after_title |->
             Max(Pt(8), ((((font_size + Pt(4)) * 8) \div 10) * spacing_scale) \div 10)]

\* (mutant) a heading counted without the spacing before it
line_height_without_before(kind, font_sizes, spacing) ==
    CASE kind = "blank" -> spacing.space_after_body \div 2
      [] kind = "h1" -> font_sizes.h1 + spacing.space_after_h1
      [] kind = "h2" -> font_sizes.h2 + spacing.space_after_h2
      [] kind = "h3" -> font_sizes.h3 + spacing.space_after_h3
      [] OTHER -> font_sizes.body + spacing.space_after_body

\* what the loop body of estimate_height adds for one line
line_height(kind, font_sizes, spacing) ==
    CASE kind = "blank" -> spacing.space_after_body \div 2
      [] kind = "h1" -> font_sizes.h1 + spacing.space_before_h1 + spacing.space_after_h1
      [] kind = "h2" -> font_sizes.h2 + spacing.space_before_h2 + spacing.space_after_h2
      [] kind = "h3" -> font_sizes.h3 + spacing.space_before_h3 + spacing.space_after_h3
      [] OTHER -> font_sizes.body + spacing.space_after_body

\* `for line in lines: total_height += ...` over lines lo..hi; the range is
\* halved so that the evaluation of a long content stays shallow
RECURSIVE SumLines(_, _, _, _, _)
SumLines(lines, lo, hi, font_sizes, spacing) ==
    IF lo > hi THEN 0
    ELSE IF lo = hi THEN line_height(lines[lo], font_sizes, spacing)
    ELSE LET mid == (lo + hi) \div 2
         IN  SumLines(lines, lo, mid, font_sizes, spacing)
             + SumLines(lines, mid + 1, hi, font_sizes, spacing)

estimate_height(content, font_sizes, spacing) ==
    LET lines == SplitLines(content)
    IN  SumLines(lines, 1, Len(lines), font_sizes, spacing)

\* the estimate the loop body computes at one (font size, scale) pair
estimated_height(content, font_size, spacing_scale) ==
    LET font_sizes == calculate_font_sizes(font_size, spacing_scale)
        spacing == calculate_spacing(font_size, spacing_scale)
    IN  estimate_height(content, font_sizes, spacing)

\* ------------------------------------------- create_formatted_pdf: styles
\* (mutant) the render-side heading offsets shrinking with the scale
render_calculate_font_sizes_scaled(font_size, spacing_scale) ==
    [title |-> font_size + (Pt(4) * spacing_scale) \div 10,
     h1 |-> font_size + (Pt(4) * spacing_scale) \div 10,
     h2 |-> font_size + (Pt(2) * spacing_scale) \div 10,
     h3 |-> font_size + (Pt(1) * spacing_scale) \div 10,
     body |-> font_size,
     leading_body |-> (font_size * Max(110, 13 * spacing_scale)) \div 100]

\* the copies of the two calculations that create_formatted_pdf defines
render_calculate_font_sizes(font_size, spacing_scale) ==
    [title |-> font_size + Pt(4),
     h1 |-> font_size + Pt(4),
     h2 |-> font_size + Pt(2),
     h3 |-> font_size + Pt(1),
     body |-> font_size,
     leading_body |-> (font_size * Max(110, 13 * spacing_scale)) \div 100]

\* (mutant) the render-side spacings without their floors
render_calculate_spacing_unfloored(font_size, spacing_scale) ==
    LET base_spacing == (font_size * 6) \div 10
    IN  [space_after_body |-> (base_spacing * spacing_scale) \div 10,
         space_after_h1 |-> ((((font_size + Pt(4)) * 8) \div 10) * spacing_scale) \div 10,
         space_after_h2 |-> ((((font_size + Pt(2)) * 8) \div 10) * spacing_scale) \div 10,
         space_after_h3 |-> ((((font_size + Pt(1)) * 7) \div 10) * spacing_scale) \div 10,
         space_before_h1 |-> ((font_size + Pt(4)) * spacing_scale) \div 10,
         space_before_h2 |-> ((((font_size + Pt(2)) * 9) \div 10) * spacing_scale) \div 10,
         space_before_h3 |-> ((((font_size + Pt(1)) * 8) \div 10) * spacing_scale) \div 10,
         space_after_title |-> ((((font_size + Pt(4)) * 8) \div 10) * spacing_scale) \div 10]

render_calculate_spacing(font_size, spacing_scale) ==
    LET base_spacing == (font_size * 6) \div 10
    IN  [space_after_body |-> Max(Pt(2), (base_spacing * spacing_scale) \div 10),
         space_after_h1 |->
             Max(Pt(8), ((((font_size + Pt(4)) * 8) \div 10) * spacing_scale) \div 10),
         space_after_h2 |->
             Max(Pt(6), ((((font_size + Pt(2)) * 8) \div 10) * spacing_scale) \div 10),
         space_after_h3 |->
             Max(Pt(4), ((((font_size + Pt(1)) * 7) \div 10) * spacing_scale) \div 10),
         space_before_h1 |->
             Max(Pt(10), ((font_size + Pt(4)) * spacing_scale) \div 10),
         space_before_h2 |->
             Max(Pt(8), ((((font_size + Pt(2)) * 9) \div 10) * spacing_scale) \div 10),
         space_before_h3 |->
             Max(Pt(6), ((((font_size + Pt(1)) * 8) \div 10) * spacing_scale) \div 10),
         space_after_title |->
             Max(Pt(8), ((((font_size + Pt(4)) * 8) \div 10) * spacing_scale) \div 10)]

\* the paragraph styles of the card format, built from the chosen pair
CardStyle(optimal_font_size, spacing_scale) ==
    LET font_sizes == render_calculate_font_sizes(optimal_font_size, spacing_scale)
        spacing == render_calculate_spacing(optimal_font_size, spacing_scale)
    IN  [name |-> "4x6",
         title |-> [fontSize |-> font_sizes.title,
                    spaceAfter |-> spacing.space_after_title],
         h1 |-> [fontSize |-> font_sizes.h1, spaceBefore |-> spacing.space_before_h1,
                 spaceAfter |-> spacing.space_after_h1],
         h2 |-> [fontSize |-> font_sizes.h2, spaceBefore |-> spacing.space_before_h2,
                 spaceAfter |-> spacing.space_after_h2],
         h3 |-> [fontSize |-> font_sizes.h3, spaceBefore |-> spacing.space_before_h3,
                 spaceAfter |-> spacing.space_after_h3],
         body |-> [fontSize |-> font_sizes.body,
                   spaceAfter |-> spacing.space_after_body,
                   leading |-> font_sizes.leading_body]]

\* the fixed paragraph styles of the standard format
DefaultStyle ==
    [name |-> "standard",
     title |-> [fontSize |-> Pt(18), spaceAfter |-> Pt(20)],
     h1 |-> [fontSize |-> Pt(16), spaceBefore |-> Pt(20), spaceAfter |-> Pt(16)],
     h2 |-> [fontSize |-> Pt(14), spaceBefore |-> Pt(16), spaceAfter |-> Pt(12)],
     h3 |-> [fontSize |-> Pt(12), spaceBefore |-> Pt(12), spaceAfter |-> Pt(10)],
     body |-> [fontSize |-> Pt(12), spaceAfter |-> Pt(8), leading |-> Pt(14)]]

NoStyle == [name |-> "none"]

\* ------------------------------------------- create_formatted_pdf: the story
\* the line of text each kind of line stands for
SampleLine(kind) ==
    CASE kind = "blank" -> ""
      [] kind = "h1" -> "# H"
      [] kind = "h2" -> "## H"
      [] kind = "h3" -> "### H"
      [] kind = "open_emphasis" -> "**bold"
      [] kind = "stray_tag" -> "a <b> c"
      [] OTHER -> "text"

\* re.sub(r'\*\*(.*?)\*\*', r'<b>\1</b>', line), then
\* re.sub(r'\*(.*?)\*', r'<i>\1</i>', ...), then html.unescape: in '**bold'
\* the second pattern matches the two asterisks around nothing
formatted_line(line) ==
    IF line = "**bold" THEN "<i></i>bold" ELSE line

\* line[2:].strip(), line[3:].strip(), line[4:].strip() of a heading line
heading_text(line) == "H"

\* Paragraph(text, style) parses its text as XML-like markup and raises
\* ValueError when a tag is left open
ParagraphParses(text) == text # "a <b> c"

Paragraph(text, style_name) == [type |-> "Paragraph", text |-> text, style |-> style_name]
Spacer(height) == [type |-> "Spacer", height |-> height]

\* `if filename:` the title paragraph and the spacer after it
TitleBlocks(filename, format4x6) ==
    IF filename # ""
    THEN <<Paragraph(filename, "title"), Spacer(IF format4x6 THEN Pt(15) ELSE Pt(20))>>
    ELSE <<>>

\* the fallback processing of one line that belongs to no list
FallbackBlock(kind) ==
    CASE kind = "blank" -> Spacer(Pt(6))
      [] kind = "h1" -> Paragraph(heading_text(SampleLine(kind)), "h1")
      [] kind = "h2" -> Paragraph(heading_text(SampleLine(kind)), "h2")
      [] kind = "h3" -> Paragraph(heading_text(SampleLine(kind)), "h3")
      [] OTHER -> Paragraph(formatted_line(SampleLine(kind)), "body")

\* the fallback branch `for line in lines:` over every line of the content
FallbackParagraphs(content) ==
    LET lines == SplitLines(content)
    IN  [i \in 1..Len(lines) |-> FallbackBlock(lines[i])]

\* what _html_to_paragraphs makes of mistune's HTML for the content: the
\* HTML is the library's, and the model does not look into it
HtmlParagraphs == <<[type |-> "HtmlParagraphs"]>>

\* the story: the title blocks, then the content's blocks
Story(content, filename, format4x6, markdown_available) ==
    TitleBlocks(filename, format4x6)
    \o (IF markdown_available THEN HtmlParagraphs ELSE FallbackParagraphs(content))

\* every Paragraph of the story could be constructed
StoryBuilds(blocks) ==
    \A i \in DOMAIN blocks :
        blocks[i].type = "Paragraph" => ParagraphParses(blocks[i].text)

\* (mutant) the card laid out with half-inch margins
DocGeometry_half_inch_margin(format4x6) ==
    IF format4x6
    THEN [width |-> 6 * inch, height |-> 4 * inch, margin |-> inch \div 2]
    ELSE [width |-> (17 * inch) \div 2, height |-> 11 * inch, margin |-> (3 * inch) \div 4]

\* page size and margins handed to SimpleDocTemplate
DocGeometry(format4x6) ==
    IF format4x6
    THEN [width |-> 6 * inch, height |-> 4 * inch, margin |-> inch \div 4]
    ELSE [width |-> (17 * inch) \div 2, height |-> 11 * inch, margin |-> (3 * inch) \div 4]

\* ------------------------------------------------------------- messages
Ids == {"None", "1", "2"}
ToolNames == {"print_file", "list_printers", "test_print"}
PrinterNames == {"", "P1"}
FileNames == {"", "notes"}

\* One input line that parsed to a JSON object.  params and args are
\* "absent", "nonobject" (present, not a JSON object) or "object"; name is
\* "None" when params carries no name; extra says that the arguments carry
\* a key the tool does not take; has_content that they carry content.
NoMessage ==
    [method |-> "", id |-> "None", params |-> "absent", name |-> "None",
     args |-> "absent", extra |-> FALSE, has_content |-> FALSE,
     content |-> EmptyContent, filename |-> "", format4x6 |-> FALSE,
     printer_name |-> "", debug |-> FALSE]

PlainMessages ==
    {[NoMessage EXCEPT !.method = m, !.id = i] :
        m \in {"initialize", "tools/list", "unknown", "None"}, i \in Ids}

CallMessages ==
    {[NoMessage EXCEPT !.method = "tools/call", !.id = i, !.params = p] :
        p \in {"absent", "nonobject"}, i \in Ids}
    \cup
    {[NoMessage EXCEPT !.method = "tools/call", !.id = i, !.params = "object",
                       !.name = n, !.args = a, !.extra = x] :
        n \in ToolNames \cup {"bogus", "None"}, a \in {"absent", "nonobject", "object"},
        x \in BOOLEAN, i \in Ids}

TestPrintMessages ==
    {[NoMessage EXCEPT !.method = "tools/call", !.id = i, !.params = "object",
                       !.name = "test_print", !.args = "object",
                       !.format4x6 = f, !.printer_name = p] :
        f \in BOOLEAN, p \in PrinterNames, i \in {"None", "1"}}

PrintFileMessages ==
    {[NoMessage EXCEPT !.method = "tools/call", !.id = i, !.params = "object",
                       !.name = "print_file", !.args = "object",
                       !.has_content = TRUE, !.content = c, !.filename = fn,
                       !.format4x6 = f, !.printer_name = p] :
        c \in RequestContents, fn \in FileNames, f \in BOOLEAN, p \in PrinterNames,
        i \in {"1"}}

Messages == PlainMessages \cup CallMessages \cup TestPrintMessages \cup PrintFileMessages

\* the arguments a tool call binds
NoRequest ==
    [called |-> FALSE, content |-> EmptyContent, filename |-> "", format4x6 |-> FALSE,
     printer_name |-> "", debug |-> FALSE]

\* ------------------------------------------------------------- responses
NoResponse == [id |-> "absent", kind |-> "none", code |-> 0, text |-> <<>>]
Result(text) == [id |-> "absent", kind |-> "result", code |-> 0, text |-> text]
ToolError(tool_name, exc) ==
    [id |-> "absent", kind |-> "error", code |-> -1,
     text |-> <<"Error in ", tool_name, ": ", exc, "\n", "traceback">>]
ParseError ==
    [id |-> "None", kind |-> "error", code |-> -32700, text |-> <<"Parse error">>]
MethodNotFound(method) ==
    [id |-> "None", kind |-> "error", code |-> -32601,
     text |-> <<"Method not found: ", method>>]

BaseName(path) == "tmp" \o ToString(path) \o ".pdf"


\* ---------------------------------------------------------------- state
VARIABLES
    pc,                 \* where the server is: "init", "read", "handle_message",
                        \* "print_file", "search", "build", "dispatch",
                        \* "responded", "exited", "interrupted", "crashed",
                        \* "startup_failed"
    exe_exists,         \* PDFtoPrinter.exe lies beside the server
    REPORTLAB_AVAILABLE,
    MARKDOWN_AVAILABLE, \* mistune could be imported
    temp_files,         \* self.temp_files: the paths recorded for cleanup
    fs,                 \* the temporary files ever created, by path 1, 2, ...:
                        \* "empty" (zero bytes), "pdf" (non-empty) or "gone"
    nread,              \* lines read so far
    nresp,              \* response lines written so far
    message,            \* the message being handled
    response,           \* the response line written for the line read last
    escaped,            \* the exception that left run(), "" if none
    req,                \* print_file's arguments; called says that it was called
    temp_file_path,     \* create_formatted_pdf's temporary file, 0 before it exists
    doc,                \* the geometry of the SimpleDocTemplate
    current_font_size,  \* find_optimal_scaling's loop variables
    test_spacing_scale,
    evals,              \* estimates computed by the running search
    total_height,       \* the estimate computed last, 0 before the first
    optimal,            \* the pair find_optimal_scaling returned
    style,              \* the paragraph styles the story is built with
    story,              \* the flowables handed to doc.build
    pages,              \* pages of the PDF the real layout pass wrote, 0 if none
    pdf_file,           \* the path create_formatted_pdf returned, 0 if none
    dispatched,         \* the path handed to PDFtoPrinter, 0 if none
    proc,               \* how the PDFtoPrinter process ended
    input_lines,        \* `lines` of the loop over the content's lines that is
                        \* running: content.split('\n') or html_content.split('\n')
    line_index,         \* how many of them the loop has gone through
    in_list,            \* the list state of the fallback loop
    ordered_list,
    list_counter,       \* the number of the ordered item emitted last (both loops)
    in_ul,              \* the list state of _html_to_paragraphs
    in_ol,
    paragraphs          \* the flowables _html_to_paragraphs has collected

installed == <<exe_exists, REPORTLAB_AVAILABLE, MARKDOWN_AVAILABLE>>
server == <<installed, temp_files, fs>>
io == <<nread, nresp, message, response, escaped>>
searchVars == <<current_font_size, test_spacing_scale, evals, total_height, optimal>>
buildVars == <<style, story, pages, pdf_file>>
dispatchVars == <<dispatched, proc>>
locals == <<req, temp_file_path, doc, searchVars, buildVars, dispatchVars>>
listVars == <<input_lines, line_index, in_list, ordered_list, list_counter, in_ul, in_ol,
              paragraphs>>
vars == <<pc, server, io, locals, listVars>>

NoPair == [font |-> 0, scale |-> 0]
NoDoc == [width |-> 0, height |-> 0, margin |-> 0]
NoProc == [ended |-> "none", returncode |-> 0, stderr |-> ""]

\* no loop over lines is running
NoLists ==
    /\ input_lines = <<>>
    /\ line_index = 0
    /\ in_list = FALSE
    /\ ordered_list = FALSE
    /\ list_counter = 0
    /\ in_ul = FALSE
    /\ in_ol = FALSE
    /\ paragraphs = <<>>

\* the locals of a request that has not started
FreshLocals ==
    /\ req' = NoRequest
    /\ temp_file_path' = 0
    /\ doc' = NoDoc
    /\ current_font_size' = 0
    /\ test_spacing_scale' = 0
    /\ evals' = 0
    /\ total_height' = 0
    /\ optimal' = NoPair
    /\ style' = NoStyle
    /\ story' = <<>>
    /\ pages' = 0
    /\ pdf_file' = 0
    /\ dispatched' = 0
    /\ proc' = NoProc

Init ==
    /\ pc = "init"
    /\ exe_exists \in BOOLEAN
    /\ REPORTLAB_AVAILABLE \in BOOLEAN
    /\ MARKDOWN_AVAILABLE \in BOOLEAN
    /\ temp_files = <<>>
    /\ fs = <<>>
    /\ nread = 0
    /\ nresp = 0
    /\ message = NoMessage
    /\ response = NoResponse
    /\ escaped = ""
    /\ req = NoRequest
    /\ temp_file_path = 0
    /\ doc = NoDoc
    /\ current_font_size = 0
    /\ test_spacing_scale = 0
    /\ evals = 0
    /\ total_height = 0
    /\ optimal = NoPair
    /\ style = NoStyle
    /\ story = <<>>
    /\ pages = 0
    /\ pdf_file = 0
    /\ dispatched = 0
    /\ proc = NoProc
    /\ NoLists

\* ------------------------------------------------------- __init__ and run
\* PrinterMCPServer(): _get_pdf_printer_path raises when the executable is
\* missing, and main() never reaches run().
Construct ==
    /\ pc = "init"
    /\ pc' = IF exe_exists THEN "read" ELSE "startup_failed"
    /\ escaped' = IF exe_exists THEN "" ELSE "FileNotFoundError"
    /\ UNCHANGED <<listVars, server, nread, nresp, message, response, locals>>

Range(s) == {s[i] : i \in DOMAIN s}

\* (mutant) only the file recorded last is unlinked
cleanup_last_temp_file(files) ==
    [p \in DOMAIN files |->
        IF temp_files # <<>> /\ p = temp_files[Len(temp_files)] THEN "gone" ELSE files[p]]

\* cleanup_temp_files: every recorded file that still exists is unlinked
cleanup_temp_files(files) ==
    [p \in DOMAIN files |-> IF p \in Range(temp_files) THEN "gone" ELSE files[p]]

\* the finally clause of run()
RunExits(how, exc) ==
    /\ fs' = cleanup_temp_files(fs)
    /\ pc' = how
    /\ escaped' = exc
    /\ UNCHANGED <<listVars, installed, temp_files>>

\* (mutant) the response prepared but not counted as written
WriteResponse_not_written(r) ==
    /\ response' = IF message.id # "None" THEN [r EXCEPT !.id = message.id] ELSE r
    /\ nresp' = nresp
    /\ pc' = "responded"
    /\ UNCHANGED <<nread, message, escaped>>

\* print(json.dumps(response)) at the end of handle_message, after the
\* message's id, when it has one, is put into the response
WriteResponse(r) ==
    /\ response' = IF message.id # "None" THEN [r EXCEPT !.id = message.id] ELSE r
    /\ nresp' = nresp + 1
    /\ pc' = "responded"
    /\ UNCHANGED <<nread, message, escaped>>

\* readline() returns '': the loop breaks
ReadEOF ==
    /\ pc = "read"
    /\ RunExits("exited", "")
    /\ UNCHANGED <<nread, nresp, message, response, locals>>

\* the places of the loop of run(), from readline() to the response written
InLoop == {"read", "handle_message", "print_file", "search", "build", "dispatch",
           "responded"}

\* KeyboardInterrupt anywhere in the loop: no handler below run() catches it
\* (they catch Exception), run() does, and the finally clause follows; the
\* request in hand is dropped with its message and its locals
Interrupt ==
    /\ pc \in InLoop
    /\ RunExits("interrupted", "")
    /\ message' = NoMessage
    /\ response' = NoResponse
    /\ FreshLocals
    /\ UNCHANGED <<nread, nresp>>

\* json.loads raises JSONDecodeError: the parse error is written, the loop goes on
ReadBadJSON ==
    /\ pc = "read"
    /\ nread < MaxRequests
    /\ nread' = nread + 1
    /\ response' = ParseError
    /\ nresp' = nresp + 1
    /\ pc' = "responded"
    /\ UNCHANGED <<listVars, server, message, escaped, locals>>

\* the line is valid JSON but no object: message.get raises AttributeError,
\* which run() does not catch
ReadNonObject ==
    /\ pc = "read"
    /\ nread < MaxRequests
    /\ nread' = nread + 1
    /\ RunExits("crashed", "AttributeError")
    /\ UNCHANGED <<nresp, message, response, locals>>

ReadMessage ==
    /\ pc = "read"
    /\ nread < MaxRequests
    /\ \E m \in Messages : message' = m
    /\ nread' = nread + 1
    /\ pc' = "handle_message"
    /\ UNCHANGED <<listVars, server, nresp, response, escaped, locals>>

\* the response is written: the loop comes round to readline() again, and
\* the finished request's message, response and locals are gone
LoopBack ==
    /\ pc = "responded"
    /\ pc' = "read"
    /\ message' = NoMessage
    /\ response' = NoResponse
    /\ FreshLocals
    /\ UNCHANGED <<listVars, server, nread, nresp, escaped>>

\* --------------------------------------------------------- handle_message
HandleInitialize ==
    /\ pc = "handle_message"
    /\ message.method = "initialize"
    /\ WriteResponse(Result(<<"protocolVersion", "serverInfo">>))
    /\ UNCHANGED <<listVars, server, locals>>

HandleListTools ==
    /\ pc = "handle_message"
    /\ message.method = "tools/list"
    /\ WriteResponse(Result(<<"tools">>))
    /\ UNCHANGED <<listVars, server, locals>>

HandleUnknownMethod ==
    /\ pc = "handle_message"
    /\ message.method \notin {"initialize", "tools/list", "tools/call"}
    /\ WriteResponse(MethodNotFound(message.method))
    /\ UNCHANGED <<listVars, server, locals>>

\* ------------------------------------------------------- handle_call_tool
\* params is not an object: params.get raises outside the try block, and
\* neither handle_message nor run() catches it
CallToolBadParams ==
    /\ pc = "handle_message"
    /\ message.method = "tools/call"
    /\ message.params = "nonobject"
    /\ RunExits("crashed", "AttributeError")
    /\ UNCHANGED <<nread, nresp, message, response, locals>>

tool_name == IF message.params = "object" THEN message.name ELSE "None"

CallToolUnknown ==
    /\ pc = "handle_message"
    /\ message.method = "tools/call"
    /\ message.params # "nonobject"
    /\ tool_name \notin ToolNames
    /\ WriteResponse(ToolError(tool_name, "Unknown tool"))
    /\ UNCHANGED <<listVars, server, locals>>

\* the call tool(**arguments) raises TypeError: the arguments are no mapping,
\* name a parameter the tool does not have, or lack the required content
ArgumentsBind ==
    /\ message.args # "nonobject"
    /\ ~message.extra
    /\ tool_name = "print_file" => message.args = "object" /\ message.has_content

CallToolTypeError ==
    /\ pc = "handle_message"
    /\ message.method = "tools/call"
    /\ message.params # "nonobject"
    /\ tool_name \in ToolNames
    /\ ~ArgumentsBind
    /\ WriteResponse(ToolError(tool_name, "TypeError"))
    /\ UNCHANGED <<listVars, server, locals>>

\* list_printers never raises: it answers with a listing or a message
CallListPrinters ==
    /\ pc = "handle_message"
    /\ message.method = "tools/call"
    /\ message.params # "nonobject"
    /\ tool_name = "list_printers"
    /\ ArgumentsBind
    /\ \E t \in {"Available Printers:", "No printers found or unable to list printers.",
                 "Error listing printers: "} : WriteResponse(Result(<<t>>))
    /\ UNCHANGED <<listVars, server, locals>>

\* test_print calls print_file with its fixed content, a title and debug=True
CallTestPrint ==
    /\ pc = "handle_message"
    /\ message.method = "tools/call"
    /\ message.params # "nonobject"
    /\ tool_name = "test_print"
    /\ ArgumentsBind
    /\ req' = [called |-> TRUE,
               content |-> IF message.format4x6 THEN TestContent4x6 ELSE TestContentLetter,
               filename |-> "test_page",
               format4x6 |-> message.format4x6,
               printer_name |-> message.printer_name,
               debug |-> TRUE]
    /\ pc' = "print_file"
    /\ UNCHANGED <<listVars, server, io, temp_file_path, doc, searchVars, buildVars, dispatchVars>>

CallPrintFile ==
    /\ pc = "handle_message"
    /\ message.method = "tools/call"
    /\ message.params # "nonobject"
    /\ tool_name = "print_file"
    /\ ArgumentsBind
    /\ req' = [called |-> TRUE,
               content |-> message.content,
               filename |-> message.filename,
               format4x6 |-> message.format4x6,
               printer_name |-> message.printer_name,
               debug |-> message.debug]
    /\ pc' = "print_file"
    /\ UNCHANGED <<listVars, server, io, temp_file_path, doc, searchVars, buildVars, dispatchVars>>


\* ------------------------------------------------------------- print_file
\* what print_file returns when create_formatted_pdf or the dispatch raises
PrintFileError(cause, debug) ==
    <<"Error creating or printing PDF: ", "Error creating PDF: ", cause>>
    \o (IF debug THEN <<"\n", "traceback">> ELSE <<>>)

PrintFileNoReportLab ==
    /\ pc = "print_file"
    /\ ~REPORTLAB_AVAILABLE
    /\ WriteResponse(Result(<<"Error: ReportLab is required for PDF generation. ",
                              "Install with: pip install reportlab">>))
    /\ UNCHANGED <<listVars, server, locals>>

\* --------------------------------------------------- create_formatted_pdf
\* (mutant) the card branch taken whatever the format
card_branch_always(format4x6) == TRUE

\* the branch `if format4x6:` that fits the content and builds the card styles
card_branch(format4x6) == format4x6

\* find_optimal_scaling's early return `if not format4x6`
search_skipped(format4x6) == ~format4x6

\* (mutant) one fixed name for every temporary file
fixed_temp_name(files) == 1

\* tempfile.NamedTemporaryFile(suffix='.pdf', delete=False): a file that did
\* not exist before, under a name no existing file has
NamedTemporaryFile(files) == Len(files) + 1

\* NamedTemporaryFile raises (no space, no temporary directory): nothing is
\* recorded, the exception is wrapped and print_file returns it as text
CreateTempFails ==
    /\ pc = "print_file"
    /\ REPORTLAB_AVAILABLE
    /\ WriteResponse(Result(PrintFileError("OSError", req.debug)))
    /\ UNCHANGED <<listVars, server, locals>>

\* The temporary file is created and recorded, the document template is set
\* up, and either the search starts (card format) or the standard styles
\* are taken.
CreateTempFile ==
    /\ pc = "print_file"
    /\ REPORTLAB_AVAILABLE
    /\ temp_file_path' = NamedTemporaryFile(fs)
    /\ fs' = Append(fs, "empty")
    /\ temp_files' = Append(temp_files, NamedTemporaryFile(fs))
    /\ doc' = DocGeometry(req.format4x6)
    /\ IF card_branch(req.format4x6)
       THEN IF search_skipped(req.format4x6)
            THEN /\ optimal' = [font |-> base_font_size, scale |-> full_spacing_scale]
                 /\ style' = CardStyle(base_font_size, full_spacing_scale)
                 /\ pc' = "build"
                 /\ UNCHANGED <<current_font_size, test_spacing_scale>>
            ELSE /\ current_font_size' = base_font_size
                 /\ test_spacing_scale' = full_spacing_scale
                 /\ pc' = "search"
                 /\ UNCHANGED <<optimal, style>>
       ELSE /\ style' = DefaultStyle
            /\ pc' = "build"
            /\ UNCHANGED <<current_font_size, test_spacing_scale, optimal>>
    /\ UNCHANGED <<listVars, installed, io, req, evals, total_height, story, pages, pdf_file,
                   dispatchVars>>

\* --------------------------------------------------- find_optimal_scaling
\* (mutant) the estimate compared with one page more than the budget
Fits_extra_page(height) ==
    height <= (page_height - 2 * search_margin) * (max_pages + 1)

\* `if estimated_height <= usable_height`
Fits(height) == height <= usable_height

\* (mutant) the scale of a new font size starting at the floor
restart_at_floor == min_spacing_scale

\* `current_spacing_scale = 1.0`: the scale the inner loop starts from at
\* each new font size
restart_spacing_scale == full_spacing_scale

\* (mutant) the loop variables as the loops leave them
exhausted_pair_as_left ==
    [font |-> current_font_size - font_step, scale |-> test_spacing_scale]

\* the pair returned when the outer loop ends without a fit
exhausted_pair == [font |-> min_font_size, scale |-> min_spacing_scale]

\* find_optimal_scaling returns (font, scale) to create_formatted_pdf, which
\* builds the card styles from it
SearchReturns(font, scale) ==
    /\ optimal' = [font |-> font, scale |-> scale]
    /\ style' = CardStyle(font, scale)
    /\ pc' = "build"

\* the inner loop body found a fit: the pair is returned at once
SearchFit(height) ==
    /\ Fits(height)
    /\ SearchReturns(current_font_size, test_spacing_scale)
    /\ UNCHANGED <<current_font_size, test_spacing_scale>>

\* (mutant) a miss that leaves the scale where it is
SearchMiss_keeps_scale(height) ==
    /\ ~Fits(height)
    /\ test_spacing_scale' = test_spacing_scale
    /\ UNCHANGED <<pc, current_font_size, optimal, style>>

\* the inner loop body found none: the scale goes down a step
SearchMiss(height) ==
    /\ ~Fits(height)
    /\ test_spacing_scale' = test_spacing_scale - spacing_step
    /\ UNCHANGED <<pc, current_font_size, optimal, style>>

\* one pass of the inner loop body
SearchEval ==
    /\ pc = "search"
    /\ test_spacing_scale >= min_spacing_scale
    /\ evals' = evals + 1
    /\ LET height == estimated_height(req.content, current_font_size, test_spacing_scale)
       IN  /\ total_height' = height
           /\ SearchFit(height) \/ SearchMiss(height)
    /\ UNCHANGED <<listVars, server, io, req, temp_file_path, doc, story, pages, pdf_file,
                   dispatchVars>>

\* the inner loop ends: the font size goes down a step and the outer loop goes on
SearchNextFont ==
    /\ pc = "search"
    /\ test_spacing_scale < min_spacing_scale
    /\ current_font_size - font_step >= min_font_size
    /\ current_font_size' = current_font_size - font_step
    /\ test_spacing_scale' = restart_spacing_scale
    /\ UNCHANGED <<pc, listVars, server, io, req, temp_file_path, doc, evals, total_height,
                   optimal, buildVars, dispatchVars>>

\* the outer loop ends: `return min_font_size, min_spacing_scale`
SearchExhausted ==
    /\ pc = "search"
    /\ test_spacing_scale < min_spacing_scale
    /\ current_font_size - font_step < min_font_size
    /\ current_font_size' = current_font_size - font_step
    /\ SearchReturns(exhausted_pair.font, exhausted_pair.scale)
    /\ UNCHANGED <<listVars, server, io, req, temp_file_path, doc, test_spacing_scale, evals,
                   total_height, story, pages, pdf_file, dispatchVars>>

\* find_optimal_scaling called with format4x6 false:
\* `return base_font_size, 1.0` before any of the loops' variables is set
SearchSkipped ==
    /\ pc = "find_optimal_scaling"
    /\ search_skipped(req.format4x6)
    /\ optimal' = [font |-> base_font_size, scale |-> full_spacing_scale]
    /\ pc' = "returned"
    /\ UNCHANGED <<listVars, server, io, req, temp_file_path, doc, current_font_size,
                   test_spacing_scale, evals, total_height, style, story, pages,
                   pdf_file, dispatchVars>>

\* ------------------------------------------- create_formatted_pdf: the build
\* (mutant) the size of the file not looked at
PdfExists(status) == status # "gone"

\* `if not os.path.exists(path) or os.path.getsize(path) == 0: raise`
PdfCreated(status) == status = "pdf"

\* the story create_formatted_pdf builds for the request in hand
RequestStory == Story(req.content, req.filename, req.format4x6, MARKDOWN_AVAILABLE)

\* The story is built and doc.build lays it out in n pages, leaving the file
\* in some state; the file passes the check and its path is returned.
BuildReturnsPath ==
    /\ pc = "build"
    /\ StoryBuilds(RequestStory)
    /\ story' = RequestStory
    /\ \E n \in 1..MaxPagesBuilt, status \in {"pdf", "empty", "gone"} :
          /\ PdfCreated(status)
          /\ pages' = n
          /\ fs' = [fs EXCEPT ![temp_file_path] = status]
    /\ pdf_file' = temp_file_path
    /\ pc' = "dispatch"
    /\ UNCHANGED <<listVars, installed, temp_files, io, req, temp_file_path,
                   doc, searchVars, style, dispatchVars>>

\* doc.build returns, the file fails the check: RuntimeError, wrapped, and
\* print_file returns it as text
BuildLeavesNoPdf ==
    /\ pc = "build"
    /\ StoryBuilds(RequestStory)
    /\ story' = RequestStory
    /\ \E status \in {"pdf", "empty", "gone"} :
          /\ ~PdfCreated(status)
          /\ fs' = [fs EXCEPT ![temp_file_path] = status]
    /\ WriteResponse(Result(PrintFileError("PDF file was not created or is empty",
                                           req.debug)))
    /\ UNCHANGED <<listVars, installed, temp_files, req, temp_file_path,
                   doc, searchVars, style, pages, pdf_file, dispatchVars>>

\* A Paragraph of the story cannot be constructed (ValueError), or doc.build
\* raises (a flowable too large for a frame): the exception is wrapped and
\* print_file returns it as text
BuildRaises ==
    /\ pc = "build"
    /\ IF StoryBuilds(RequestStory)
       THEN /\ story' = RequestStory
            /\ WriteResponse(Result(PrintFileError("LayoutError", req.debug)))
       ELSE /\ story' = <<>>
            /\ WriteResponse(Result(PrintFileError("ValueError", req.debug)))
    /\ UNCHANGED <<listVars, server, req, temp_file_path, doc, searchVars, style, pages,
                   pdf_file, dispatchVars>>

\* ------------------------------------------------ print_with_pdftoprinter
printer_display(printer_name) == IF printer_name # "" THEN printer_name ELSE "default printer"

ReturnCodes == {0, 1}
Diagnostics == {"", "printer offline"}

\* (mutant) the process's stderr text left out of the failure
dispatch_result_without_stderr(returncode, stderr, path, printer_name) ==
    IF returncode = 0
    THEN <<"Successfully printed '", BaseName(path), "' on ", printer_display(printer_name)>>
    ELSE <<"PDFtoPrinter error (code ", ToString(returncode), "): ", "Unknown error">>

\* the text returned once subprocess.run has returned
dispatch_result(returncode, stderr, path, printer_name) ==
    IF returncode = 0
    THEN <<"Successfully printed '", BaseName(path), "' on ", printer_display(printer_name)>>
    ELSE <<"PDFtoPrinter error (code ", ToString(returncode), "): ",
           IF stderr # "" THEN stderr ELSE "Unknown error">>

\* subprocess.run returns with an exit status
DispatchExits ==
    /\ pc = "dispatch"
    /\ dispatched' = pdf_file
    /\ \E rc \in ReturnCodes, err \in Diagnostics :
          /\ proc' = [ended |-> "exit", returncode |-> rc, stderr |-> err]
          /\ WriteResponse(Result(dispatch_result(rc, err, pdf_file, req.printer_name)))
    /\ UNCHANGED <<listVars, server, req, temp_file_path, doc, searchVars, buildVars>>

\* subprocess.run raises TimeoutExpired after timeout=60
DispatchTimesOut ==
    /\ pc = "dispatch"
    /\ dispatched' = pdf_file
    /\ proc' = [ended |-> "timeout", returncode |-> 0, stderr |-> ""]
    /\ WriteResponse(Result(<<"PDFtoPrinter timed out (60 seconds)">>))
    /\ UNCHANGED <<listVars, server, req, temp_file_path, doc, searchVars, buildVars>>

\* subprocess.run raises anything else (the executable cannot be started)
DispatchRaises ==
    /\ pc = "dispatch"
    /\ dispatched' = pdf_file
    /\ proc' = [ended |-> "exception", returncode |-> 0, stderr |-> ""]
    /\ WriteResponse(Result(<<"Error running PDFtoPrinter: ", "OSError">>))
    /\ UNCHANGED <<listVars, server, req, temp_file_path, doc, searchVars, buildVars>>

\* ------------------------------ create_formatted_pdf: the loops over lines
\* A line is a sequence of characters; an HTML tag or an entity stands in
\* it as one element.
DigitChars == <<"0", "1", "2", "3", "4", "5", "6", "7", "8", "9">>
IsDigit(c) == \E d \in DOMAIN DigitChars : DigitChars[d] = c
DigitValue(c) == (CHOOSE d \in DOMAIN DigitChars : DigitChars[d] = c) - 1

\* the length of the run of digits a line starts with: (\d+)
RECURSIVE LeadingDigits(_)
LeadingDigits(line) ==
    IF line # <<>> /\ IsDigit(Head(line)) THEN 1 + LeadingDigits(Tail(line)) ELSE 0

\* int() of a run of digits
RECURSIVE int(_)
int(digits) ==
    IF digits = <<>> THEN 0
    ELSE int(SubSeq(digits, 1, Len(digits) - 1)) * 10 + DigitValue(digits[Len(digits)])

\* a number as an f-string writes it
RECURSIVE str(_)
str(n) ==
    IF n < 10 THEN <<DigitChars[n + 1]>>
    ELSE str(n \div 10) \o <<DigitChars[(n % 10) + 1]>>

\* html.unescape: an entity becomes the character it names
unescape(text) ==
    [i \in DOMAIN text |->
        CASE text[i] = "&amp;" -> "&"
          [] text[i] = "&lt;" -> "<"
          [] text[i] = "&gt;" -> ">"
          [] OTHER -> text[i]]

\* re.match(r'^(\d+)\.\s+(.*)', line) on a stripped line
ordered_match(line) ==
    LET n == LeadingDigits(line)
    IN  n >= 1 /\ Len(line) >= n + 2 /\ line[n + 1] = "." /\ line[n + 2] = " "
\* int(ordered_match.group(1))
ordered_number(line) == int(SubSeq(line, 1, LeadingDigits(line)))
\* html.unescape(ordered_match.group(2).strip())
ordered_content(line) ==
    unescape(Strip(SubSeq(line, LeadingDigits(line) + 2, Len(line))))

\* re.match(r'^[-\*+]\s+(.*)', line) on a stripped line
unordered_match(line) ==
    Len(line) >= 2 /\ line[1] \in {"-", "*", "+"} /\ line[2] = " "
\* html.unescape(unordered_match.group(1).strip())
unordered_content(line) == unescape(Strip(SubSeq(line, 3, Len(line))))

\* the character U+2022 that is written before an unordered item
bullet == "\\u2022"
\* f"{list_counter}. {content}" and f"\u2022 {content}"
numbered(counter, content) == str(counter) \o <<".", " ">> \o content
bulleted(content) == <<bullet, " ">> \o content

\* the two re.sub of the body branch and html.unescape, on a line that
\* holds no asterisk: neither pattern matches
formatted_text(line) == unescape(line)

\* (mutant) a line of more than one character taken for a heading
FallbackParagraph_long_is_heading(line) ==
    IF Len(line) > 1 THEN Paragraph(unescape(line), "h1")
    ELSE Paragraph(formatted_text(line), "body")

\* the block the fallback loop makes of a stripped line that is no list item
FallbackParagraph(line) ==
    CASE StartsWith(line, <<"#", " ">>) ->
             Paragraph(unescape(Strip(SubSeq(line, 3, Len(line)))), "h1")
      [] StartsWith(line, <<"#", "#", " ">>) ->
             Paragraph(unescape(Strip(SubSeq(line, 4, Len(line)))), "h2")
      [] StartsWith(line, <<"#", "#", "#", " ">>) ->
             Paragraph(unescape(Strip(SubSeq(line, 5, Len(line)))), "h3")
      [] OTHER -> Paragraph(formatted_text(line), "body")

\* `for line in lines:` has a line left; `line = line.strip()`
LineLeft == line_index < Len(input_lines)
current_line == Strip(input_lines[line_index + 1])

\* (mutant) a spacer for every blank line, inside a list too
FallbackBlank_always_spacer ==
    /\ pc = "fallback"
    /\ LineLeft
    /\ current_line = <<>>
    /\ story' = Append(story, Spacer(Pt(6)))
    /\ line_index' = line_index + 1
    /\ UNCHANGED <<pc, server, io, req, temp_file_path, doc, searchVars, style, pages,
                   pdf_file, dispatchVars, input_lines, in_list, ordered_list,
                   list_counter, in_ul, in_ol, paragraphs>>

\* `if not line:` a spacer outside a list, nothing inside one
FallbackBlank ==
    /\ pc = "fallback"
    /\ LineLeft
    /\ current_line = <<>>
    /\ story' = IF ~in_list THEN Append(story, Spacer(Pt(6))) ELSE story
    /\ line_index' = line_index + 1
    /\ UNCHANGED <<pc, server, io, req, temp_file_path, doc, searchVars, style, pages,
                   pdf_file, dispatchVars, input_lines, in_list, ordered_list,
                   list_counter, in_ul, in_ol, paragraphs>>

\* (mutant) every ordered item shown with the number written on it
FallbackOrdered_as_written ==
    /\ pc = "fallback"
    /\ LineLeft
    /\ current_line # <<>>
    /\ ordered_match(current_line)
    /\ in_list' = TRUE
    /\ ordered_list' = TRUE
    /\ list_counter' = ordered_number(current_line)
    /\ story' = Append(story, Paragraph(numbered(list_counter',
                                                 ordered_content(current_line)), "body"))
    /\ line_index' = line_index + 1
    /\ UNCHANGED <<pc, server, io, req, temp_file_path, doc, searchVars, style, pages,
                   pdf_file, dispatchVars, input_lines, in_ul, in_ol, paragraphs>>

\* `if ordered_match:` the counter is taken from the line when a list or an
\* ordered list starts, and goes up by one otherwise
FallbackOrdered ==
    /\ pc = "fallback"
    /\ LineLeft
    /\ current_line # <<>>
    /\ ordered_match(current_line)
    /\ in_list' = TRUE
    /\ ordered_list' = TRUE
    /\ list_counter' = IF ~in_list \/ ~ordered_list
                       THEN ordered_number(current_line)
                       ELSE list_counter + 1
    /\ story' = Append(story, Paragraph(numbered(list_counter',
                                                 ordered_content(current_line)), "body"))
    /\ line_index' = line_index + 1
    /\ UNCHANGED <<pc, server, io, req, temp_file_path, doc, searchVars, style, pages,
                   pdf_file, dispatchVars, input_lines, in_ul, in_ol, paragraphs>>

\* (mutant) an unordered item that sets the counter back
FallbackUnordered_resets_counter ==
    /\ pc = "fallback"
    /\ LineLeft
    /\ current_line # <<>>
    /\ ~ordered_match(current_line)
    /\ unordered_match(current_line)
    /\ in_list' = TRUE
    /\ ordered_list' = FALSE
    /\ list_counter' = 0
    /\ story' = Append(story, Paragraph(bulleted(unordered_content(current_line)), "body"))
    /\ line_index' = line_index + 1
    /\ UNCHANGED <<pc, server, io, req, temp_file_path, doc, searchVars, style, pages,
                   pdf_file, dispatchVars, input_lines, in_ul, in_ol, paragraphs>>

\* `if unordered_match:` the list goes on as an unordered one
FallbackUnordered ==
    /\ pc = "fallback"
    /\ LineLeft
    /\ current_line # <<>>
    /\ ~ordered_match(current_line)
    /\ unordered_match(current_line)
    /\ in_list' = TRUE
    /\ ordered_list' = FALSE
    /\ story' = Append(story, Paragraph(bulleted(unordered_content(current_line)), "body"))
    /\ line_index' = line_index + 1
    /\ UNCHANGED <<pc, server, io, req, temp_file_path, doc, searchVars, style, pages,
                   pdf_file, dispatchVars, input_lines, list_counter, in_ul, in_ol,
                   paragraphs>>

\* any other line ends the list it follows, with a spacer, and becomes a
\* heading or a body paragraph
FallbackOther ==
    /\ pc = "fallback"
    /\ LineLeft
    /\ current_line # <<>>
    /\ ~ordered_match(current_line)
    /\ ~unordered_match(current_line)
    /\ in_list' = FALSE
    /\ ordered_list' = IF in_list THEN FALSE ELSE ordered_list
    /\ story' = (IF in_list THEN Append(story, Spacer(Pt(6))) ELSE story)
                    \o <<FallbackParagraph(current_line)>>
    /\ line_index' = line_index + 1
    /\ UNCHANGED <<pc, server, io, req, temp_file_path, doc, searchVars, style, pages,
                   pdf_file, dispatchVars, input_lines, list_counter, in_ul, in_ol,
                   paragraphs>>

\* the fallback loop ends: the story goes to doc.build
FallbackEnds ==
    /\ pc = "fallback"
    /\ ~LineLeft
    /\ pc' = "doc_build"
    /\ UNCHANGED <<server, io, locals, listVars>>

\* ------------------------------------------------------ _html_to_paragraphs
HtmlTags ==
    {"<ul>", "</ul>", "<ol>", "</ol>", "<li>", "</li>", "<p>", "</p>", "<h1>", "</h1>",
     "<h2>", "</h2>", "<h3>", "</h3>", "<div>", "</div>", "<b>", "</b>"}
ListContainers == {<<"<ul>">>, <<"</ul>">>, <<"<ol>">>, <<"</ol>">>}

\* re.sub(r'</?h1>', '', line) and the like: the tags are taken out
without(line, tags) == SelectSeq(line, LAMBDA c : c \notin tags)
\* sanitize_text: html.unescape(text).strip()
sanitize_text(text) == Strip(unescape(text))
KeepTogether(flowables) == [type |-> "KeepTogether", content |-> flowables]

\* `if not line:` a spacer outside the lists, nothing inside one
HtmlBlank ==
    /\ pc = "html_to_paragraphs"
    /\ LineLeft
    /\ current_line = <<>>
    /\ paragraphs' = IF ~in_ul /\ ~in_ol THEN Append(paragraphs, Spacer(Pt(6)))
                     ELSE paragraphs
    /\ line_index' = line_index + 1
    /\ UNCHANGED <<pc, server, io, locals, input_lines, in_list, ordered_list, list_counter,
                   in_ul, in_ol>>

\* `<ul>`, `</ul>`, `<ol>`, `</ol>` on a line of their own
HtmlListContainer ==
    /\ pc = "html_to_paragraphs"
    /\ LineLeft
    /\ current_line \in ListContainers
    /\ in_ul' = CASE current_line = <<"<ul>">> -> TRUE
                  [] current_line = <<"</ul>">> -> FALSE
                  [] OTHER -> in_ul
    /\ in_ol' = CASE current_line = <<"<ol>">> -> TRUE
                  [] current_line = <<"</ol>">> -> FALSE
                  [] OTHER -> in_ol
    /\ list_counter' = IF current_line = <<"<ol>">> THEN 0 ELSE list_counter
    /\ paragraphs' = IF current_line \in {<<"</ul>">>, <<"</ol>">>}
                     THEN Append(paragraphs, Spacer(Pt(6)))
                     ELSE paragraphs
    /\ line_index' = line_index + 1
    /\ UNCHANGED <<pc, server, io, locals, input_lines, in_list, ordered_list>>

\* `elif line.startswith('<li>'):` a bullet inside <ul> or outside every
\* list, the next number inside <ol>
HtmlListItem ==
    /\ pc = "html_to_paragraphs"
    /\ LineLeft
    /\ current_line # <<>>
    /\ current_line \notin ListContainers
    /\ current_line[1] = "<li>"
    /\ LET content == sanitize_text(without(current_line, {"<li>", "</li>"}))
       IN  IF in_ul
           THEN /\ paragraphs' = Append(paragraphs, Paragraph(bulleted(content), "body"))
                /\ UNCHANGED list_counter
           ELSE IF in_ol
           THEN /\ list_counter' = list_counter + 1
                /\ paragraphs' = Append(paragraphs,
                                        Paragraph(numbered(list_counter', content), "body"))
           ELSE /\ paragraphs' = Append(paragraphs, Paragraph(bulleted(content), "body"))
                /\ UNCHANGED list_counter
    /\ line_index' = line_index + 1
    /\ UNCHANGED <<pc, server, io, locals, input_lines, in_list, ordered_list, in_ul, in_ol>>

\* a heading, a <p> line, a line of text; <div> lines are skipped; for any
\* other line that starts with a tag ReportLab is tried first, and the text
\* without its tags is taken if it raises
HtmlBlock ==
    /\ pc = "html_to_paragraphs"
    /\ LineLeft
    /\ current_line # <<>>
    /\ current_line \notin ListContainers
    /\ current_line[1] # "<li>"
    /\ LET line == current_line
       IN  CASE line[1] = "<h1>" ->
                    paragraphs' = Append(paragraphs,
                        Paragraph(sanitize_text(without(line, {"<h1>", "</h1>"})), "h1"))
             [] line[1] = "<h2>" ->
                    paragraphs' = Append(paragraphs,
                        Paragraph(sanitize_text(without(line, {"<h2>", "</h2>"})), "h2"))
             [] line[1] = "<h3>" ->
                    paragraphs' = Append(paragraphs,
                        Paragraph(sanitize_text(without(line, {"<h3>", "</h3>"})), "h3"))
             [] line[1] = "<p>" ->
                    paragraphs' = Append(paragraphs,
                        Paragraph(sanitize_text(without(line, {"<p>", "</p>"})), "body"))
             [] line[1] \in {"<div>", "</div>"} -> UNCHANGED paragraphs
             [] line[1] \notin HtmlTags ->
                    paragraphs' = Append(paragraphs, Paragraph(sanitize_text(line), "body"))
             [] OTHER ->
                    \/ paragraphs' = Append(paragraphs, Paragraph(line, "body"))
                    \/ LET text_content == sanitize_text(without(line, HtmlTags))
                       IN  paragraphs' = IF text_content # <<>>
                                         THEN Append(paragraphs,
                                                     Paragraph(text_content, "body"))
                                         ELSE paragraphs
    /\ line_index' = line_index + 1
    /\ UNCHANGED <<pc, server, io, locals, input_lines, in_list, ordered_list, list_counter,
                   in_ul, in_ol>>

\* `return paragraphs`: create_formatted_pdf keeps them together on a card
\* when they are eight at most, and the story goes to doc.build
HtmlReturns ==
    /\ pc = "html_to_paragraphs"
    /\ ~LineLeft
    /\ story' = story \o (IF req.format4x6 /\ Len(paragraphs) <= 8
                           THEN <<KeepTogether(paragraphs)>>
                           ELSE paragraphs)
    /\ pc' = "doc_build"
    /\ UNCHANGED <<server, io, req, temp_file_path, doc, searchVars, style, pages, pdf_file,
                   dispatchVars, listVars>>

\* ------------------------------------------------------------------ spec
Next ==
    \/ Construct
    \/ ReadEOF
    \/ Interrupt
    \/ ReadBadJSON
    \/ ReadNonObject
    \/ ReadMessage
    \/ LoopBack
    \/ HandleInitialize
    \/ HandleListTools
    \/ HandleUnknownMethod
    \/ CallToolBadParams
    \/ CallToolUnknown
    \/ CallToolTypeError
    \/ CallListPrinters
    \/ CallTestPrint
    \/ CallPrintFile
    \/ PrintFileNoReportLab
    \/ CreateTempFails
    \/ CreateTempFile
    \/ SearchEval
    \/ SearchNextFont
    \/ SearchExhausted
    \/ BuildReturnsPath
    \/ BuildLeavesNoPdf
    \/ BuildRaises
    \/ DispatchExits
    \/ DispatchTimesOut
    \/ DispatchRaises

Spec == Init /\ [][Next]_vars

\* ------------------------------------------- the search by itself
\* find_optimal_scaling as create_formatted_pdf calls it for the first card
\* request of a run, on every content of Contents: the state CreateTempFile
\* leaves, and the steps of the loop. The function is also called by itself
\* with format4x6 false, which create_formatted_pdf never does.
SearchInit ==
    /\ exe_exists = TRUE
    /\ REPORTLAB_AVAILABLE = TRUE
    /\ MARKDOWN_AVAILABLE = TRUE
    /\ temp_files = <<1>>
    /\ fs = <<"empty">>
    /\ nread = 1
    /\ nresp = 0
    /\ \E c \in Contents, f \in BOOLEAN :
          /\ message = [NoMessage EXCEPT !.method = "tools/call", !.id = "1",
                                         !.params = "object", !.name = "print_file",
                                         !.args = "object", !.has_content = TRUE,
                                         !.content = c, !.format4x6 = f]
          /\ req = [called |-> TRUE, content |-> c, filename |-> "", format4x6 |-> f,
                    printer_name |-> "", debug |-> FALSE]
          /\ pc = IF f THEN "search" ELSE "find_optimal_scaling"
          /\ doc = DocGeometry(f)
          /\ current_font_size = IF f THEN base_font_size ELSE 0
          /\ test_spacing_scale = IF f THEN full_spacing_scale ELSE 0
    /\ response = NoResponse
    /\ escaped = ""
    /\ temp_file_path = 1
    /\ evals = 0
    /\ total_height = 0
    /\ optimal = NoPair
    /\ style = NoStyle
    /\ story = <<>>
    /\ pages = 0
    /\ pdf_file = 0
    /\ dispatched = 0
    /\ proc = NoProc
    /\ NoLists

SearchNext ==
    \/ SearchSkipped
    \/ SearchEval
    \/ SearchNextFont
    \/ SearchExhausted

SearchSpec == SearchInit /\ [][SearchNext]_vars

\* ------------------------------------------- the loops over lines by themselves
\* The fallback loop of create_formatted_pdf and _html_to_paragraphs as they
\* are run for the first request of a run, on every text of up to
\* MaxStoryLines lines: the state at line 676, and the steps of the loops.
FallbackSampleLines ==
    {<<>>, <<"1", ".", " ", "a">>, <<"2", ".", " ", "b">>, <<"7", ".", " ", "c">>,
     <<"-", " ", "d">>, <<"#", " ", "H">>, <<"t">>, <<"u", " ", "v">>}
HtmlSampleLines ==
    {<<>>, <<"<ol>">>, <<"</ol>">>, <<"<ul>">>, <<"</ul>">>, <<"<li>", "a", "</li>">>,
     <<"<p>", "t", "</p>">>, <<"t">>, <<"u", " ", "v">>}
Texts(sample) == UNION {[1..n -> sample] : n \in 1..MaxStoryLines}

StoryInit ==
    /\ pc \in {"fallback", "html_to_paragraphs"}
    /\ exe_exists = TRUE
    /\ REPORTLAB_AVAILABLE = TRUE
    /\ MARKDOWN_AVAILABLE = (pc = "html_to_paragraphs")
    /\ temp_files = <<1>>
    /\ fs = <<"empty">>
    /\ nread = 1
    /\ nresp = 0
    /\ message = [NoMessage EXCEPT !.method = "tools/call", !.id = "1",
                                   !.params = "object", !.name = "print_file",
                                   !.args = "object", !.has_content = TRUE]
    /\ req = [NoRequest EXCEPT !.called = TRUE]
    /\ response = NoResponse
    /\ escaped = ""
    /\ temp_file_path = 1
    /\ doc = DocGeometry(FALSE)
    /\ current_font_size = 0
    /\ test_spacing_scale = 0
    /\ evals = 0
    /\ total_height = 0
    /\ optimal = NoPair
    /\ style = DefaultStyle
    /\ story = <<>>
    /\ pages = 0
    /\ pdf_file = 0
    /\ dispatched = 0
    /\ proc = NoProc
    /\ input_lines \in Texts(IF pc = "fallback" THEN FallbackSampleLines
                              ELSE HtmlSampleLines)
    /\ line_index = 0
    /\ in_list = FALSE
    /\ ordered_list = FALSE
    /\ list_counter = 0
    /\ in_ul = FALSE
    /\ in_ol = FALSE
    /\ paragraphs = <<>>

StoryNext ==
    \/ FallbackBlank
    \/ FallbackOrdered
    \/ FallbackUnordered
    \/ FallbackOther
    \/ FallbackEnds
    \/ HtmlBlank
    \/ HtmlListContainer
    \/ HtmlListItem
    \/ HtmlBlock
    \/ HtmlReturns

StorySpec == StoryInit /\ [][StoryNext]_vars


\* ================================================================ claims
\* The grid the search is specified over: font sizes 10.0 down to 5.0 in
\* steps of 0.5, scales 1.0 down to 0.5 in steps of 0.1.
GridFonts ==
    {base_font_size - k * font_step :
        k \in 0..((base_font_size - min_font_size) \div font_step)}
GridScales == min_spacing_scale..full_spacing_scale
Grid == [font : GridFonts, scale : GridScales]

FitsAt(content, pair) == estimated_height(content, pair.font, pair.scale) <= usable_height
NoFitOnGrid(content) == \A pair \in Grid : ~FitsAt(content, pair)

\* pair a comes before pair b in the scan: larger font first, then larger scale
ScannedBefore(a, b) == a.font > b.font \/ (a.font = b.font /\ a.scale > b.scale)

CardRequest == req.called /\ req.format4x6
Responded == pc = "responded"
InText(part) == \E i \in DOMAIN response.text : response.text[i] = part
ReportsSuccess ==
    /\ response.kind = "result"
    /\ response.text # <<>>
    /\ response.text[1] = "Successfully printed '"

\* the search of a card request has just returned to create_formatted_pdf
SearchReturned == pc = "build" /\ CardRequest

\* C1: a card request whose estimate exceeds the usable height at every
\* grid point ends in a fit failure ('too long to fit'): no document is built
\* with the floor style, nothing is dispatched, print_file reports no success.
C1_ExhaustedSearchIsFitFailure ==
    (pc \in {"build", "dispatch", "responded"} /\ CardRequest /\ temp_file_path # 0
        /\ NoFitOnGrid(req.content))
    => /\ pc = "responded"
       /\ style = NoStyle
       /\ pages = 0
       /\ dispatched = 0
       /\ ~ReportsSuccess
       /\ InText("too long to fit")

\* C2: a card request reports success only if the real layout pass produced
\* at most 2 pages; with more pages it fails and the document is not dispatched.
C2_SuccessOnlyWithinPageBudget ==
    (Responded /\ CardRequest)
    => /\ ReportsSuccess => pages \in 1..max_pages
       /\ pages > max_pages => dispatched = 0 /\ ~ReportsSuccess

\* C3: if any pair of the grid has an estimate within the usable height,
\* the pair find_optimal_scaling returns has an estimate within it too.
C3_SearchReturnsFittingPair ==
    SearchReturned
    => \/ FitsAt(req.content, optimal)
       \/ NoFitOnGrid(req.content)

\* a search that had to shrink and found a fit below the top of the grid
C3_Witness ==
    /\ SearchReturned
    /\ FitsAt(req.content, optimal)
    /\ optimal.font < base_font_size
    /\ optimal.scale < full_spacing_scale

\* C4: find_optimal_scaling returns the first fitting pair in scan order
\* (largest font first, at each font the largest scale first, the scale
\* restarting at 1.0 for each font), having evaluated exactly the pairs up
\* to it; content that fits at (10pt, 1.0) yields exactly (10.0, 1.0).
C4_FirstFitInScanOrder ==
    (SearchReturned /\ ~NoFitOnGrid(req.content))
    => /\ optimal \in Grid
       /\ FitsAt(req.content, optimal)
       /\ \A pair \in Grid : ScannedBefore(pair, optimal) => ~FitsAt(req.content, pair)
       /\ evals = Cardinality({pair \in Grid : ScannedBefore(pair, optimal)}) + 1
       /\ FitsAt(req.content, [font |-> base_font_size, scale |-> full_spacing_scale])
            => optimal = [font |-> base_font_size, scale |-> full_spacing_scale]

\* a search that went down at least one font size and returned a scale
\* above the floor: the scale restarted for the new font size
C4_Witness ==
    /\ SearchReturned
    /\ FitsAt(req.content, optimal)
    /\ optimal.font < base_font_size
    /\ optimal.scale > min_spacing_scale

\* a print_file call whose content is the empty string or is missing
EmptyOrMissingContent ==
    /\ message.method = "tools/call"
    /\ message.params = "object"
    /\ message.name = "print_file"
    /\ message.args = "object"
    /\ ~message.extra
    /\ ~message.has_content \/ message.content = EmptyContent

\* C5: a print request with empty or missing content is answered with an
\* error at once: no search runs, no PDF artifact is created, nothing is
\* dispatched.
C5_EmptyContentIsInputError ==
    EmptyOrMissingContent
    => /\ pc \notin {"search", "build", "dispatch"}
       /\ evals = 0
       /\ temp_file_path = 0
       /\ dispatched = 0
       /\ Responded => ~ReportsSuccess

\* C6: for a request with format4x6=false the search loop never runs, the
\* fixed default style is used, and a PDF of any number of pages that passes
\* the file check goes to the printer: the outcome is the dispatch's.
C6_StandardFormatSkipsSearch ==
    (req.called /\ ~req.format4x6)
    => /\ pc # "search"
       /\ evals = 0
       /\ optimal = NoPair
       /\ pc \in {"build", "dispatch"} => style = DefaultStyle
       /\ style \in {NoStyle, DefaultStyle}
       /\ (Responded /\ pages > 0) => dispatched = pdf_file /\ dispatched # 0
       /\ (Responded /\ pages > 0 /\ proc.ended = "exit" /\ proc.returncode = 0)
            => ReportsSuccess

\* a long standard-format request laid out in more than two pages and printed
C6_Witness ==
    /\ Responded
    /\ req.called
    /\ ~req.format4x6
    /\ Len(SplitLines(req.content)) >= 2 * RepStep
    /\ pages > max_pages
    /\ ReportsSuccess

\* C7: the dispatch is invoked only with the path create_formatted_pdf
\* returned for this request, an existing non-empty PDF; when rendering
\* raises or leaves no file or an empty one, the request is answered with a
\* failure and nothing is dispatched.
C7_DispatchOnlyAfterVerifiedPdf ==
    /\ dispatched # 0
         => /\ dispatched = pdf_file
            /\ dispatched = temp_file_path
            /\ temp_file_path = Len(fs)
            /\ fs[dispatched] = "pdf"
            /\ pages >= 1
    /\ pc = "dispatch" => pdf_file # 0 /\ pdf_file = temp_file_path /\ fs[pdf_file] = "pdf"
    /\ (Responded /\ req.called /\ pdf_file = 0)
         => /\ dispatched = 0
            /\ proc = NoProc
            /\ ~ReportsSuccess
            /\ response.text[1] \in {"Error creating or printing PDF: ",
                                     "Error: ReportLab is required for PDF generation. "}

\* the second request's PDF is dispatched after the first left an empty file
C7_Witness ==
    /\ Responded
    /\ Len(fs) = 2
    /\ fs[1] = "empty"
    /\ dispatched = 2

\* C8: no exception escapes the request boundary: every line read is
\* answered and the server goes on to read the next one.
C8_NoExceptionEscapes ==
    nread > 0 => escaped = "" /\ pc # "crashed"

\* C9: a nonzero exit status is answered with a failure that carries the
\* process's stderr text verbatim, a timeout with the timeout failure;
\* neither is reported as success.
C9_DispatchFailureReported ==
    Responded
    => /\ (proc.ended = "exit" /\ proc.returncode # 0)
            => /\ ~ReportsSuccess
               /\ response.kind = "result"
               /\ response.text[1] = "PDFtoPrinter error (code "
               /\ response.text[2] = ToString(proc.returncode)
               /\ proc.stderr # "" => response.text[Len(response.text)] = proc.stderr
       /\ proc.ended = "timeout"
            => /\ ~ReportsSuccess
               /\ response.text = <<"PDFtoPrinter timed out (60 seconds)">>

C9_Witness ==
    /\ Responded
    /\ proc.ended = "exit"
    /\ proc.returncode # 0
    /\ proc.stderr = "printer offline"
    /\ InText("printer offline")

\* C10: the status string of a successful card print includes the chosen
\* font size and spacing scale, as 'font=<size>pt' and 'spacing=<scale>'.
C10_SuccessNamesFontAndSpacing ==
    (Responded /\ CardRequest /\ ReportsSuccess)
    => InText("font=") /\ InText("spacing=")

\* the build of the request in hand is over (create_formatted_pdf returned or raised)
BuildOver == req.called /\ temp_file_path # 0 /\ pc \in {"dispatch", "responded"}

\* C11: normalizing never raises on malformed markup: a line that is no
\* heading, list item or blank becomes a body paragraph carrying its literal
\* text, and the request does not fail because of it.
C11_MalformedLineIsLiteralParagraph ==
    (BuildOver /\ ~MARKDOWN_AVAILABLE)
    => LET lines == SplitLines(req.content)
           title == Len(TitleBlocks(req.filename, req.format4x6))
       IN  /\ Len(story) = title + Len(lines)
           /\ \A i \in DOMAIN lines :
                 lines[i] \notin {"blank", "h1", "h2", "h3"}
                 => story[title + i] = Paragraph(SampleLine(lines[i]), "body")
           /\ ~InText("ValueError")

\* the place of a pair in the scan, 1 for (10.0, 1.0)
ScanPosition(pair) ==
    ((base_font_size - pair.font) \div font_step) * Cardinality(GridScales)
    + (full_spacing_scale - pair.scale) + 1

NoDuplicates(seq) == \A i, j \in DOMAIN seq : i # j => seq[i] # seq[j]

C13_CardGeometryMatchesBudget ==
    (req.called /\ req.format4x6 /\ temp_file_path # 0)
    => /\ doc.width = Pt(432)
       /\ doc.height = Pt(288)
       /\ doc.width = 6 * inch
       /\ doc.height = 4 * inch
       /\ page_height = doc.height
       /\ search_margin = doc.margin
       /\ max_pages = 2
       /\ usable_height = 2 * (doc.height - 2 * doc.margin)
       /\ \A height \in {usable_height - 1, usable_height, usable_height + 1} :
             Fits(height) <=> height <= max_pages * (doc.height - 2 * doc.margin)

\* a card request whose search is comparing estimates with the usable height
C13_Witness ==
    /\ pc = "search"
    /\ CardRequest
    /\ evals > 0
    /\ doc = [width |-> Pt(432), height |-> Pt(288), margin |-> Pt(18)]

\* C14: a print request made while the rendering or the markup library is
\* unavailable is answered with a dependency failure, with no artifact and
\* no dispatch; a missing PDFtoPrinter.exe fails the construction before any
\* request is read.
C14_MissingDependencyFails ==
    /\ (req.called /\ (~REPORTLAB_AVAILABLE \/ ~MARKDOWN_AVAILABLE))
         => /\ pc \in {"print_file", "responded"}
            /\ temp_file_path = 0
            /\ story = <<>>
            /\ dispatched = 0
            /\ Responded => ~ReportsSuccess
    /\ ~exe_exists => nread = 0 /\ pc \in {"init", "startup_failed"}

\* what a block of the story is to the estimate, and what the estimate
\* counts for a line
BlockKind(block) == IF block.type = "Spacer" THEN "spacer" ELSE block.style
EstimatedKind(kind) ==
    CASE kind = "blank" -> "spacer"
      [] kind \in {"h1", "h2", "h3"} -> kind
      [] OTHER -> "body"

\* the blocks estimate_height has counted for a content: one for each line
EstimatedBlocks(content) ==
    LET lines == SplitLines(content)
    IN  [i \in DOMAIN lines |-> EstimatedKind(lines[i])]

\* C15: the height checked against the budget of a card request covers
\* exactly the block sequence of the final document: every content line and,
\* when a filename is given, the title block and its spacer.
C15_EstimateCoversTheStory ==
    (pc = "dispatch" /\ CardRequest /\ ~MARKDOWN_AVAILABLE)
    => /\ total_height = estimated_height(req.content, optimal.font, optimal.scale)
       /\ [i \in DOMAIN story |-> BlockKind(story[i])] = EstimatedBlocks(req.content)

\* the pair the inner loop is about to evaluate
PairInHand == pc = "search" /\ test_spacing_scale >= min_spacing_scale

\* C16: at every pair the search evaluates, the render-side calculations
\* give the same font sizes, leading and spacings as the search-side ones,
\* and the styles of the final document are built from the values the
\* search computed at the pair it returned.
C16_RenderStyleIsSearchStyle ==
    /\ PairInHand
         => /\ [font |-> current_font_size, scale |-> test_spacing_scale] \in Grid
            /\ render_calculate_font_sizes(current_font_size, test_spacing_scale)
                 = calculate_font_sizes(current_font_size, test_spacing_scale)
            /\ render_calculate_spacing(current_font_size, test_spacing_scale)
                 = calculate_spacing(current_font_size, test_spacing_scale)
    /\ SearchReturned
         => LET font_sizes == calculate_font_sizes(optimal.font, optimal.scale)
                spacing == calculate_spacing(optimal.font, optimal.scale)
            IN  /\ style.title = [fontSize |-> font_sizes.title,
                                  spaceAfter |-> spacing.space_after_title]
                /\ style.h1 = [fontSize |-> font_sizes.h1,
                               spaceBefore |-> spacing.space_before_h1,
                               spaceAfter |-> spacing.space_after_h1]
                /\ style.h2 = [fontSize |-> font_sizes.h2,
                               spaceBefore |-> spacing.space_before_h2,
                               spaceAfter |-> spacing.space_after_h2]
                /\ style.h3 = [fontSize |-> font_sizes.h3,
                               spaceBefore |-> spacing.space_before_h3,
                               spaceAfter |-> spacing.space_after_h3]
                /\ style.body = [fontSize |-> font_sizes.body,
                                 spaceAfter |-> spacing.space_after_body,
                                 leading |-> font_sizes.leading_body]

\* the search returned a pair at which a spacing sits on its floor
C16_Witness ==
    /\ SearchReturned
    /\ Fits(total_height)
    /\ optimal.font < base_font_size
    /\ optimal.scale < full_spacing_scale
    /\ style.h1.spaceBefore = Pt(10)
    /\ style.body.spaceAfter > Pt(2)

\* C17: for a fixed content the estimate never grows when the font size
\* or the spacing scale is decreased: at grid pairs with f1 <= f2 and
\* s1 <= s2 the estimate at (f1, s1) is at most the one at (f2, s2).
C17_EstimateIsMonotone ==
    SearchReturned
    => LET estimates ==
               {[font |-> pair.font, scale |-> pair.scale,
                 height |-> estimated_height(req.content, pair.font, pair.scale)] :
                    pair \in Grid}
       IN  \A a, b \in estimates :
               (a.font <= b.font /\ a.scale <= b.scale) => a.height <= b.height

\* a content whose estimate is smaller at a smaller scale and smaller again
\* at a smaller font size
C17_Witness ==
    /\ SearchReturned
    /\ evals > Cardinality(GridScales)
    /\ total_height < estimated_height(req.content, optimal.font, full_spacing_scale)
    /\ estimated_height(req.content, optimal.font, full_spacing_scale)
         < estimated_height(req.content, base_font_size, full_spacing_scale)

\* how often a kind of line occurs in a content
CountKind(content, kind) ==
    Cardinality({i \in DOMAIN SplitLines(content) : SplitLines(content)[i] = kind})

\* the kind the marker of a line gives it, whatever follows the marker
MarkerKind(marker) ==
    CASE marker \in {<<"#", " ">>, <<" ", "#", " ">>} -> "h1"
      [] marker = <<"#", "#", " ">> -> "h2"
      [] marker = <<"#", "#", "#", " ">> -> "h3"
      [] OTHER -> "body"

\* C18: the estimate is the sum over the lines, each counted once, of
\* heading font size + before-spacing + after-spacing ('# ', '## ', '### '),
\* body font size + body after-spacing (any other non-blank line, list items
\* included), half the body after-spacing (blank line); the kind of a line
\* does not depend on how long the line is.
C18_EstimateIsSumOverLineKinds ==
    SearchReturned
    => LET font_sizes == calculate_font_sizes(optimal.font, optimal.scale)
           spacing == calculate_spacing(optimal.font, optimal.scale)
       IN  /\ total_height =
                 CountKind(req.content, "h1")
                    * (font_sizes.h1 + spacing.space_before_h1 + spacing.space_after_h1)
                 + CountKind(req.content, "h2")
                    * (font_sizes.h2 + spacing.space_before_h2 + spacing.space_after_h2)
                 + CountKind(req.content, "h3")
                    * (font_sizes.h3 + spacing.space_before_h3 + spacing.space_after_h3)
                 + CountKind(req.content, "body")
                    * (font_sizes.body + spacing.space_after_body)
                 + CountKind(req.content, "blank") * (spacing.space_after_body \div 2)
           /\ \A marker \in LineMarkers, text \in LineBodies :
                 LineKind(marker \o text) = MarkerKind(marker)
           /\ \A blank \in BlankLines : LineKind(blank) = "blank"

\* the estimate of a content of headings and blank lines, after shrinking
C18_Witness ==
    /\ SearchReturned
    /\ evals > 1
    /\ CountKind(req.content, "h2") > 1
    /\ CountKind(req.content, "blank") > 1
    /\ total_height > 0

\* the bound as the claim computes it: the quotient of each range by its step
ClaimedPairs ==
    ((base_font_size - min_font_size) \div font_step)
        * ((full_spacing_scale - min_spacing_scale) \div spacing_step)
\* the pairs of the grid: both ends of each range are tried
GridPairs == Cardinality(Grid)

\* C19 (as stated): the search never evaluates more than
\* ((10 - 5) / 0.5) x ((1.0 - 0.5) / 0.1) = 50 pairs.
C19_AtMostClaimedPairs == evals <= ClaimedPairs

\* the steps the loops have left at most: none once the search has
\* returned, else one for the return, one more than the scales of the grid
\* for every font size still below the current one, and the scales still to
\* try at the current one
SearchRank ==
    IF pc = "find_optimal_scaling" THEN 1
    ELSE IF pc # "search" THEN 0
    ELSE 1 + ((current_font_size - min_font_size) \div font_step)
                * (Cardinality(GridScales) + 1)
           + (test_spacing_scale - min_spacing_scale + 1)

\* C19 (amended): find_optimal_scaling terminates for every content (every
\* step of its loops lowers a measure that is never negative, so no run
\* takes more steps than the measure it starts with), and the number of
\* pairs it evaluates never exceeds (10 + 1) x (5 + 1) = 66, the size of
\* the grid with both ends of each range.
C19_SearchTerminatesWithinGrid ==
    [][/\ SearchRank' < SearchRank
       /\ SearchRank' >= 0
       /\ evals' <= GridPairs]_vars

\* a content that fits nowhere: every pair of the grid has been evaluated
C19_Witness ==
    /\ SearchReturned
    /\ optimal = exhausted_pair
    /\ evals = GridPairs
    /\ evals > ClaimedPairs

\* every spacing of a set at or above its floor
AboveFloors(spacing) ==
    /\ spacing.space_after_body >= Pt(2)
    /\ spacing.space_before_h1 >= Pt(10)
    /\ spacing.space_before_h2 >= Pt(8)
    /\ spacing.space_before_h3 >= Pt(6)
    /\ spacing.space_after_h1 >= Pt(8)
    /\ spacing.space_after_h2 >= Pt(6)
    /\ spacing.space_after_h3 >= Pt(4)
    /\ spacing.space_after_title >= Pt(8)

\* C20: at every pair the search evaluates (font sizes 5 to 10, scales 0.5
\* to 1.0) the spacings of both calculations are at or above their floors:
\* body after-spacing >= 2, h1/h2/h3 before-spacing >= 10/8/6, h1/h2/h3
\* after-spacing >= 8/6/4, title after-spacing >= 8, and the body leading is
\* at least 1.1 x the font size; so are the styles built from the pair
\* returned.
C20_SpacingsStayAboveFloors ==
    /\ PairInHand
         => /\ current_font_size \in min_font_size..base_font_size
            /\ test_spacing_scale \in min_spacing_scale..full_spacing_scale
            /\ AboveFloors(calculate_spacing(current_font_size, test_spacing_scale))
            /\ AboveFloors(render_calculate_spacing(current_font_size, test_spacing_scale))
            /\ calculate_font_sizes(current_font_size, test_spacing_scale).leading_body * 10
                  >= current_font_size * 11
            /\ render_calculate_font_sizes(current_font_size,
                                           test_spacing_scale).leading_body * 10
                  >= current_font_size * 11
    /\ SearchReturned
         => /\ style.body.spaceAfter >= Pt(2)
            /\ style.h1.spaceBefore >= Pt(10) /\ style.h1.spaceAfter >= Pt(8)
            /\ style.h2.spaceBefore >= Pt(8) /\ style.h2.spaceAfter >= Pt(6)
            /\ style.h3.spaceBefore >= Pt(6) /\ style.h3.spaceAfter >= Pt(4)
            /\ style.title.spaceAfter >= Pt(8)
            /\ style.body.leading * 10 >= style.body.fontSize * 11

\* the smallest pair of the grid is in hand: the scaled body after-spacing,
\* 5 x 0.6 x 0.5 = 1.5, is below the floor and the floor is what is used
C20_Witness ==
    /\ PairInHand
    /\ current_font_size = min_font_size
    /\ test_spacing_scale = min_spacing_scale
    /\ (((current_font_size * 6) \div 10) * test_spacing_scale) \div 10 < Pt(2)
    /\ calculate_spacing(current_font_size, test_spacing_scale).space_after_body = Pt(2)
    /\ calculate_font_sizes(current_font_size, test_spacing_scale).leading_body * 10
         = current_font_size * 11

\* heading sizes at fixed offsets above the body size
FixedOffsets(font_sizes, font_size) ==
    /\ font_sizes.body = font_size
    /\ font_sizes.title = font_sizes.body + Pt(4)
    /\ font_sizes.h1 = font_sizes.body + Pt(4)
    /\ font_sizes.h2 = font_sizes.body + Pt(2)
    /\ font_sizes.h3 = font_sizes.body + Pt(1)
    /\ font_sizes.h1 > font_sizes.h2
    /\ font_sizes.h2 > font_sizes.h3
    /\ font_sizes.h3 > font_sizes.body

\* the sizes of a set of font sizes, the leading left out
SizesOnly(font_sizes) ==
    [name \in {"title", "h1", "h2", "h3", "body"} |-> font_sizes[name]]

\* C21: at every pair the search evaluates, both calculations give
\* title = h1 = body + 4, h2 = body + 2, h3 = body + 1, hence
\* h1 > h2 > h3 > body, and the same sizes at every scale of the grid; the
\* styles built from the returned pair carry these sizes.
C21_HeadingSizesAreFixedOffsets ==
    /\ PairInHand
         => /\ FixedOffsets(calculate_font_sizes(current_font_size, test_spacing_scale),
                            current_font_size)
            /\ FixedOffsets(render_calculate_font_sizes(current_font_size,
                                                        test_spacing_scale),
                            current_font_size)
            /\ \A scale \in GridScales :
                  /\ SizesOnly(calculate_font_sizes(current_font_size, scale))
                       = SizesOnly(calculate_font_sizes(current_font_size,
                                                        test_spacing_scale))
                  /\ SizesOnly(render_calculate_font_sizes(current_font_size, scale))
                       = SizesOnly(render_calculate_font_sizes(current_font_size,
                                                               test_spacing_scale))
    /\ SearchReturned
         => /\ style.body.fontSize = optimal.font
            /\ style.title.fontSize = optimal.font + Pt(4)
            /\ style.h1.fontSize = optimal.font + Pt(4)
            /\ style.h2.fontSize = optimal.font + Pt(2)
            /\ style.h3.fontSize = optimal.font + Pt(1)

\* a pair below the top of the grid in both dimensions is in hand, and
\* later the styles of a shrunk card are built
C21_Witness ==
    /\ SearchReturned
    /\ optimal.font < base_font_size
    /\ optimal.scale < full_spacing_scale
    /\ style.h1.fontSize = optimal.font + Pt(4)
    /\ style.h3.fontSize > style.body.fontSize

\* ---- the loops over lines
FallbackRan == pc \in {"fallback", "doc_build"} /\ ~MARKDOWN_AVAILABLE
HtmlRan == pc \in {"html_to_paragraphs", "doc_build"} /\ MARKDOWN_AVAILABLE

\* a set of line numbers in ascending order
RECURSIVE Ascending(_)
Ascending(S) ==
    IF S = {} THEN <<>>
    ELSE LET least == CHOOSE i \in S : \A j \in S : i <= j
         IN  <<least>> \o Ascending(S \ {least})

\* the lines gone through so far, and the ordered items among them
Processed == 1..line_index
IsBlankLine(j) == Strip(input_lines[j]) = <<>>
IsOrderedItem(j) == ordered_match(Strip(input_lines[j]))
IsUnorderedItem(j) == ~IsOrderedItem(j) /\ unordered_match(Strip(input_lines[j]))
\* the last line before line j that is not blank, 0 if there is none
PrevNonBlank(j) ==
    LET before == {i \in 1..(j - 1) : ~IsBlankLine(i)}
    IN  IF before = {} THEN 0 ELSE CHOOSE i \in before : \A k \in before : k <= i
\* line j goes on with the ordered list of the item before it: nothing but
\* blank lines lies between the two
ContinuesOrderedList(j) == PrevNonBlank(j) # 0 /\ IsOrderedItem(PrevNonBlank(j))

\* the running index of the ordered item on line j of a markdown text: one
\* more than that of the item it follows, or the number a new list starts with
RECURSIVE RunningIndex(_)
RunningIndex(j) ==
    IF ContinuesOrderedList(j) THEN RunningIndex(PrevNonBlank(j)) + 1
    ELSE ordered_number(Strip(input_lines[j]))

\* the same for HTML lines: a list is open after its opening tag until its
\* closing tag, and an item is numbered in an <ol> outside every <ul>
LastOf(j, tags) ==
    LET before == {i \in 1..(j - 1) : Strip(input_lines[i]) \in tags}
    IN  IF before = {} THEN 0 ELSE CHOOSE i \in before : \A k \in before : k <= i
OlOpen(j) ==
    LastOf(j, {<<"<ol>">>, <<"</ol>">>}) # 0
    /\ Strip(input_lines[LastOf(j, {<<"<ol>">>, <<"</ol>">>})]) = <<"<ol>">>
UlOpen(j) ==
    LastOf(j, {<<"<ul>">>, <<"</ul>">>}) # 0
    /\ Strip(input_lines[LastOf(j, {<<"<ul>">>, <<"</ul>">>})]) = <<"<ul>">>
IsListItem(j) == StartsWith(Strip(input_lines[j]), <<"<li>">>)
IsNumberedItem(j) == IsListItem(j) /\ OlOpen(j) /\ ~UlOpen(j)
\* the numbered item before line j in the same <ol>, 0 if there is none
PrevNumbered(j) ==
    LET before == {i \in (LastOf(j, {<<"<ol>">>}) + 1)..(j - 1) : IsNumberedItem(i)}
    IN  IF before = {} THEN 0 ELSE CHOOSE i \in before : \A k \in before : k <= i
RECURSIVE HtmlRunningIndex(_)
HtmlRunningIndex(j) ==
    IF PrevNumbered(j) # 0 THEN HtmlRunningIndex(PrevNumbered(j)) + 1 ELSE 1

\* the numbers shown by the ordered items of a block stream, in order
IsNumberedBlock(block) ==
    block.type = "Paragraph" /\ block.style = "body" /\ ordered_match(block.text)
ShownNumbers(blocks) ==
    LET items == SelectSeq(blocks, IsNumberedBlock)
    IN  [i \in DOMAIN items |-> ordered_number(items[i].text)]

AtListTypeSwitch ==
    /\ pc = "fallback"
    /\ ~MARKDOWN_AVAILABLE
    /\ line_index >= 1
    /\ LineLeft
    /\ IsOrderedItem(line_index)
    /\ IsUnorderedItem(line_index + 1)

\* C23: an unordered item right after ordered items is emitted as a bullet
\* item and the list goes on as an unordered list; the blocks emitted before
\* it stay as they are, the loop goes on (no error), and the ordered counter
\* keeps its value.
C23_ListTypeSwitch ==
    [][AtListTypeSwitch
         => /\ story' = Append(story,
                               Paragraph(bulleted(unordered_content(current_line)), "body"))
            /\ in_list /\ ordered_list
            /\ in_list' /\ ~ordered_list'
            /\ list_counter' = list_counter
            /\ list_counter = ShownNumbers(story)[Len(ShownNumbers(story))]
            /\ pc' = "fallback"
            /\ line_index' = line_index + 1]_vars

\* '1. a', '2. b', '- d' gone through: 1 and 2, then the bullet item
C23_Witness ==
    /\ FallbackRan
    /\ pc = "doc_build"
    /\ input_lines = <<<<"1", ".", " ", "a">>, <<"2", ".", " ", "b">>, <<"-", " ", "d">>>>
    /\ story = <<Paragraph(<<"1", ".", " ", "a">>, "body"),
                 Paragraph(<<"2", ".", " ", "b">>, "body"),
                 Paragraph(<<bullet, " ", "d">>, "body")>>
    /\ in_list /\ ~ordered_list
    /\ list_counter = 2

\* a text without markup: no line is a list item or a heading, and no line
\* holds an asterisk, a tag or an entity
MarkupChars == HtmlTags \cup {"*", "<", ">", "&", "&amp;", "&lt;", "&gt;"}
IsPlainLine(j) ==
    /\ ~IsOrderedItem(j)
    /\ ~IsUnorderedItem(j)
    /\ LineKind(input_lines[j]) \in {"blank", "body"}
    /\ \A i \in DOMAIN input_lines[j] : input_lines[j][i] \notin MarkupChars
PlainText == \A j \in DOMAIN input_lines : IsPlainLine(j)
IsParagraph(block) == block.type = "Paragraph"
\* one body paragraph for each processed line that is not blank, in order
ParagraphPerLine ==
    LET nonblank == Ascending({j \in Processed : ~IsBlankLine(j)})
    IN  [i \in DOMAIN nonblank |-> Paragraph(Strip(input_lines[nonblank[i]]), "body")]

RECURSIVE RunStart(_)
RunStart(j) ==
    LET prev == PrevNonBlank(j)
    IN  IF prev # 0 /\ IsOrderedItem(prev) THEN RunStart(prev) ELSE j
\* the place of the item on line j in the run that starts on line first: 1
\* for the first
PlaceInRun(first, j) == Cardinality({i \in first..j : IsOrderedItem(i)})
\* n1 + k - 1
DisplayedIndex(j) ==
    LET first == RunStart(j)
    IN  ordered_number(Strip(input_lines[first])) + PlaceInRun(first, j) - 1

\* the fallback loop stands before a blank line that follows a list item
AtBlankLineInList ==
    /\ pc = "fallback"
    /\ ~MARKDOWN_AVAILABLE
    /\ LineLeft
    /\ IsBlankLine(line_index + 1)
    /\ PrevNonBlank(line_index + 1) # 0
    /\ \/ IsOrderedItem(PrevNonBlank(line_index + 1))
       \/ IsUnorderedItem(PrevNonBlank(line_index + 1))

\* C29: in the fallback loop the k-th consecutive item of an ordered list is
\* shown with n1 + k - 1, n1 being the number written on the first item of
\* the list, whatever is written on the later items; a blank line between
\* items leaves in_list, ordered_list and list_counter as they are and adds
\* nothing to the story.
C29_FallbackNumbersFromFirstItem ==
    [][/\ FallbackRan'
          => LET items == Ascending({j \in 1..line_index' : IsOrderedItem(j)})
             IN  ShownNumbers(story') = [i \in DOMAIN items |-> DisplayedIndex(items[i])]
       /\ AtBlankLineInList
          => /\ in_list
             /\ UNCHANGED <<in_list, ordered_list, list_counter, story>>
             /\ line_index' = line_index + 1]_vars

\* '7. c', a blank line, '2. b': 7 and 8 are shown, with no spacer between
C29_Witness ==
    /\ FallbackRan
    /\ pc = "doc_build"
    /\ input_lines = <<<<"7", ".", " ", "c">>, <<>>, <<"2", ".", " ", "b">>>>
    /\ story = <<Paragraph(<<"7", ".", " ", "c">>, "body"),
                 Paragraph(<<"8", ".", " ", "b">>, "body")>>
    /\ list_counter = 8

\* The lists open before line j of an HTML text, outermost first, each with
\* its type and the line of its opening tag; Broken once a closing tag has
\* met no open list of its type on top.
Broken == <<[type |-> "broken", opened |-> 0]>>
RECURSIVE OpenLists(_)
OpenLists(j) ==
    IF j = 1 THEN <<>>
    ELSE LET before == OpenLists(j - 1)
             line == Strip(input_lines[j - 1])
             top == before[Len(before)]
         IN  CASE before = Broken -> before
               [] line = <<"<ol>">> -> Append(before, [type |-> "ol", opened |-> j - 1])
               [] line = <<"<ul>">> -> Append(before, [type |-> "ul", opened |-> j - 1])
               [] line = <<"</ol>">> ->
                      IF before # <<>> /\ top.type = "ol"
                      THEN SubSeq(before, 1, Len(before) - 1) ELSE Broken
               [] line = <<"</ul>">> ->
                      IF before # <<>> /\ top.type = "ul"
                      THEN SubSeq(before, 1, Len(before) - 1) ELSE Broken
               [] OTHER -> before

\* line j is an item directly in the list opened on line o
DirectItem(j, o) ==
    /\ IsListItem(j)
    /\ OpenLists(j) \notin {<<>>, Broken}
    /\ OpenLists(j)[Len(OpenLists(j))].opened = o
InsideOlOnly(j) ==
    /\ OpenLists(j) \notin {<<>>, Broken}
    /\ \A i \in DOMAIN OpenLists(j) : OpenLists(j)[i].type = "ol"
InnermostIsUl(j) ==
    /\ OpenLists(j) \notin {<<>>, Broken}
    /\ OpenLists(j)[Len(OpenLists(j))].type = "ul"
\* the place of the item on line j among the items directly in its list
PlaceInList(j) ==
    LET o == OpenLists(j)[Len(OpenLists(j))].opened
    IN  Cardinality({i \in o..j : DirectItem(i, o)})

\* the blocks made of <li> lines: one for each, in order
IsItemBlock(block) ==
    /\ block.type = "Paragraph"
    /\ block.style = "body"
    /\ ordered_match(block.text) \/ StartsWith(block.text, <<bullet, " ">>)

\* C30: in _html_to_paragraphs an item between an <ol> line and its matching
\* </ol> line, inside no <ul>, shows its place among the items of that <ol>
\* (1, 2, 3, ...), also after a nested list has been closed; an item whose
\* innermost list is a <ul> is a bullet item.
C30_HtmlItemsFollowNesting ==
    HtmlRan
    => LET items == Ascending({j \in Processed : IsListItem(j)})
           blocks == SelectSeq(paragraphs, IsItemBlock)
       IN  /\ Len(blocks) = Len(items)
           /\ \A i \in DOMAIN items :
                 LET content == sanitize_text(without(Strip(input_lines[items[i]]),
                                                      {"<li>", "</li>"}))
                 IN  /\ InsideOlOnly(items[i])
                          => blocks[i].text = numbered(PlaceInList(items[i]), content)
                     /\ InnermostIsUl(items[i])
                          => blocks[i].text = bulleted(content)

\* ---- the run loop
\* a print request is in its render or dispatch step
Rendering == pc \in {"search", "build", "dispatch"}

\* C25: a line is read only when every line read before it has been answered;
\* a response is written only for the line read last, so responses come in
\* the order of the requests; and a request in its render or dispatch step
\* is the one line read and not yet answered.
C25_OneRequestAtATime ==
    [][/\ nread' # nread
          => /\ pc = "read"
             /\ nread' = nread + 1
             /\ nresp = nread
       /\ nresp' # nresp
          => /\ nresp' = nresp + 1
             /\ nresp' = nread'
             /\ pc' = "responded"
       /\ Rendering'
          => /\ req'.called
             /\ nread' = nresp' + 1
             /\ nread' = nread
             /\ temp_file_path' = temp_files'[Len(temp_files')]]_vars

\* the second request is being dispatched after the first was answered
C25_Witness ==
    /\ pc = "dispatch"
    /\ nread = 2
    /\ nresp = 1
    /\ Len(temp_files) = 2
    /\ dispatched = 0

\* find_optimal_scaling called with format4x6 false has returned
SkippedSearchReturned == pc = "returned" /\ req.called /\ ~req.format4x6

\* C26: the pair find_optimal_scaling returns is inside the grid, after a
\* fit and after exhaustion alike: the font size is one of 5.0, 5.5, ...,
\* 10.0 and the scale lies between 0.5 and 1.0; called for a request that is
\* not a card it returns (10.0, 1.0) and has evaluated no estimate.
C26_ReturnedPairInsideGrid ==
    /\ SearchReturned
       => /\ optimal.font \in GridFonts
          /\ optimal.scale >= min_spacing_scale
          /\ optimal.scale <= full_spacing_scale
          /\ evals > 0
    /\ SkippedSearchReturned
       => /\ optimal = [font |-> base_font_size, scale |-> full_spacing_scale]
          /\ evals = 0
          /\ total_height = 0

\* the call for a request that is not a card has returned
C26_Witness ==
    /\ SkippedSearchReturned
    /\ optimal.font = base_font_size
    /\ Len(SplitLines(req.content)) > 0

\* the search has returned after exhaustion and, for another content, after
\* a fit below the top of the grid
C26_ExhaustedReturned == SearchReturned /\ evals = GridPairs /\ optimal = exhausted_pair
C26_FitReturned ==
    /\ SearchReturned
    /\ optimal.font < base_font_size
    /\ optimal.font > min_font_size
    /\ optimal.scale < full_spacing_scale

\* the loop is between two lines or has ended: nothing is being handled
BetweenLines == pc \in {"read", "responded", "exited", "crashed"}

\* C28: every line read gets exactly one response line: once a line is dealt
\* with as many responses have been written as lines read; a line that is not
\* valid JSON gets error -32700 with id null and the loop goes on; an unknown
\* method gets error -32601; a message with a non-null id gets its id back.
C28_OneResponsePerLine ==
    /\ nresp <= nread
    /\ BetweenLines => nresp = nread
    /\ (Responded /\ message = NoMessage)
       => response = ParseError /\ escaped = ""
    /\ (Responded /\ message # NoMessage
           /\ message.method \notin {"initialize", "tools/list", "tools/call"})
       => response.kind = "error" /\ response.code = -32601
    /\ (Responded /\ message # NoMessage /\ message.id # "None")
       => response.id = message.id

\* ---- temporary files
\* run() has returned or been left by an exception
RunExited == pc \in {"exited", "interrupted", "crashed"}

\* every temporary file created is recorded, the one of the request being
\* laid out included
AllRecorded ==
    /\ \A p \in DOMAIN fs : p \in Range(temp_files)
    /\ (pc \in {"search", "build", "dispatch"} /\ temp_file_path # 0)
       => temp_file_path \in Range(temp_files)

\* no recorded file is left
AllCleaned == \A p \in Range(temp_files) : p \in DOMAIN fs /\ fs[p] = "gone"

=============================================================================
